---- MODULE Spec2Model ----
(***************************************************************************)
(* The relation mapper of src/common/backend/utils/cache/relmapper.cpp:    *)
(* the per-session maps (shared_map, local_map and the active and pending  *)
(* update maps of both scopes), the two on-disk copies of each map file,   *)
(* the WAL records of map updates, RelationMappingLock and the sinval      *)
(* messages, with one action per step of each handler.                     *)
(***************************************************************************)
EXTENDS Integers, Sequences, FiniteSets, TLC

\* ------------------------------------------------------------------ bounds
\* MAX_MAPPINGS stands for the capacity of RelMapFile.mappings (relmapper.h
\* is not part of the sources read here); the model keeps it small.
MAX_MAPPINGS == 2
\* RelationMapUpdateMap calls per transaction, transactions per session
MaxStage == 2
MaxXacts == 1
\* injected I/O failures, damaged file copies, sinval queue resets per run
MaxFaults == 1
MaxDamage == 1
MaxResets == 1

\* --------------------------------------------------------------- constants
InvalidOid == 0
RELMAPPER_FILEMAGIC == 5842711
CrcWidth == 2 ^ 16

Procs == {1, 2}
\* the mapped relations and the filenodes they can be given
Oids == {1, 2}
Filenodes == {1, 2}

\* ------------------------------------------------------------- RelMapFile
RelMapping(relationId, fileNode) == [mapoid |-> relationId, mapfilenode |-> fileNode]

\* a zeroed RelMapFile: what RelationMapInitialize leaves behind
ZeroMap == [magic |-> 0, num_mappings |-> 0, mappings |-> <<>>, crc |-> 0]

\* mappings[i] of the C array (1-based here); slots never written are zero
Slot(map, i) ==
    IF i >= 1 /\ i <= Len(map.mappings) THEN map.mappings[i] ELSE RelMapping(0, 0)

\* the array with slot idx set to e
WithSlot(mappings, idx, e) ==
    [k \in 1..(IF idx > Len(mappings) THEN idx ELSE Len(mappings)) |->
        IF k = idx THEN e
        ELSE IF k <= Len(mappings) THEN mappings[k] ELSE RelMapping(0, 0)]

\* "map->num_mappings = 0": the slots left behind are never read again
ResetMap(map) == [map EXCEPT !.num_mappings = 0, !.mappings = <<>>]

\* index of the first i < num_mappings with mappings[i].mapoid = relationId, or 0
FirstOid(map, relationId) ==
    LET S == {i \in 1..map.num_mappings : Slot(map, i).mapoid = relationId}
    IN IF S = {} THEN 0 ELSE CHOOSE i \in S : \A j \in S : i <= j

FirstFilenode(map, filenode) ==
    LET S == {i \in 1..map.num_mappings : Slot(map, i).mapfilenode = filenode}
    IN IF S = {} THEN 0 ELSE CHOOSE i \in S : \A j \in S : i <= j

\* the words COMP_CRC32 covers: everything before the crc field, all
\* MAX_MAPPINGS slots included
RECURSIVE SlotWords(_, _)
SlotWords(map, i) ==
    IF i > MAX_MAPPINGS THEN <<>>
    ELSE <<Slot(map, i).mapoid, Slot(map, i).mapfilenode>> \o SlotWords(map, i + 1)

CrcWords(map) == <<map.magic, map.num_mappings>> \o SlotWords(map, 1)

\* INIT_CRC32 / COMP_CRC32 / FIN_CRC32, as a positional checksum of CrcWidth
\* values: like CRC-32 it changes whenever one covered word changes
RECURSIVE CompCrc(_, _, _)
CompCrc(crc, words, i) ==
    IF i > Len(words) THEN crc
    ELSE CompCrc((crc * 33 + (words[i] % CrcWidth)) % CrcWidth, words, i + 1)

ComputeCrc(map) == CompCrc(5381, CrcWords(map), 1)

EQ_CRC32(map) == ComputeCrc(map) = map.crc

\* a header test that looks at the magic only
ValidHeader_MagicOnly(map) == map.magic = RELMAPPER_FILEMAGIC

\* the magic / count test of load_relmap_file
ValidHeader(map) ==
    /\ map.magic = RELMAPPER_FILEMAGIC
    /\ map.num_mappings >= 0
    /\ map.num_mappings <= MAX_MAPPINGS

\* ------------------------------------------------------- apply_map_update
\* apply_map_update that leaves an existing mapping as it is
apply_map_update_KeepsOld(map, relationId, fileNode, add_okay) ==
    LET i == FirstOid(map, relationId) IN
    IF i # 0 THEN [err |-> "none", map |-> map]
    ELSE IF ~add_okay
    THEN [err |-> "ERRCODE_FEATURE_NOT_SUPPORTED", map |-> map]
    ELSE IF map.num_mappings >= MAX_MAPPINGS
    THEN [err |-> "ERRCODE_PROGRAM_LIMIT_EXCEEDED", map |-> map]
    ELSE [err |-> "none",
          map |-> [map EXCEPT
                      !.mappings = WithSlot(@, map.num_mappings + 1,
                                            RelMapping(relationId, fileNode)),
                      !.num_mappings = @ + 1]]

\* apply_map_update without the test of num_mappings against MAX_MAPPINGS
apply_map_update_NoLimit(map, relationId, fileNode, add_okay) ==
    LET i == FirstOid(map, relationId) IN
    IF i # 0
    THEN [err |-> "none",
          map |-> [map EXCEPT !.mappings =
                      WithSlot(@, i, RelMapping(relationId, fileNode))]]
    ELSE IF ~add_okay
    THEN [err |-> "ERRCODE_FEATURE_NOT_SUPPORTED", map |-> map]
    ELSE [err |-> "none",
          map |-> [map EXCEPT
                      !.mappings = WithSlot(@, map.num_mappings + 1,
                                            RelMapping(relationId, fileNode)),
                      !.num_mappings = @ + 1]]

\* apply_map_update without the search for an existing mapping
apply_map_update_AlwaysAdds(map, relationId, fileNode, add_okay) ==
    IF ~add_okay
    THEN [err |-> "ERRCODE_FEATURE_NOT_SUPPORTED", map |-> map]
    ELSE IF map.num_mappings >= MAX_MAPPINGS
    THEN [err |-> "ERRCODE_PROGRAM_LIMIT_EXCEEDED", map |-> map]
    ELSE [err |-> "none",
          map |-> [map EXCEPT
                      !.mappings = WithSlot(@, map.num_mappings + 1,
                                            RelMapping(relationId, fileNode)),
                      !.num_mappings = @ + 1]]

apply_map_update(map, relationId, fileNode, add_okay) ==
    LET i == FirstOid(map, relationId) IN
    IF i # 0
    THEN [err |-> "none",
          map |-> [map EXCEPT !.mappings =
                      WithSlot(@, i, RelMapping(relationId, fileNode))]]
    ELSE IF ~add_okay
    THEN [err |-> "ERRCODE_FEATURE_NOT_SUPPORTED", map |-> map]
    ELSE IF map.num_mappings >= MAX_MAPPINGS
    THEN [err |-> "ERRCODE_PROGRAM_LIMIT_EXCEEDED", map |-> map]
    ELSE [err |-> "none",
          map |-> [map EXCEPT
                      !.mappings = WithSlot(@, map.num_mappings + 1,
                                            RelMapping(relationId, fileNode)),
                      !.num_mappings = @ + 1]]

\* merge_map_updates from entry i on; an error leaves the target as far as
\* the loop got
RECURSIVE MergeFrom(_, _, _, _)
MergeFrom(map, updates, i, add_okay) ==
    IF i > updates.num_mappings THEN [err |-> "none", map |-> map]
    ELSE LET r == apply_map_update(map, Slot(updates, i).mapoid,
                                   Slot(updates, i).mapfilenode, add_okay)
         IN IF r.err # "none" THEN r
            ELSE MergeFrom(r.map, updates, i + 1, add_okay)

merge_map_updates(map, updates, add_okay) == MergeFrom(map, updates, 1, add_okay)

\* ------------------------------------------------------------------ state
VARIABLES
    real_map,          \* [p][shared]: u_sess->relmap_cxt.shared_map / local_map
    active_updates,    \* [p][shared]: active_shared_updates / active_local_updates
    pending_updates,   \* [p][shared]: pending_shared_updates / pending_local_updates
    pc,                \* [p]: where session p stands: "idle", a step of a handler,
                       \*      "error" (ERROR raised), "dead" (FATAL), "panic"
    frame,             \* [p]: arguments and locals of the handler p is running
    CritSectionCount,  \* [p]: START_CRIT_SECTION / END_CRIT_SECTION nesting
    lock,              \* RelationMappingLock: exclusive holder (0: none), shared holders
    file,              \* [shared][copy]: the map file copies, "map" and "bak"
    wal,               \* the XLOG_RELMAP_UPDATE records, oldest first
    sinval,            \* [p]: relmap invalidation messages p has not processed yet
    preserved,         \* storage RelationPreserveStorage was called for
    xact,              \* [p]: the session's transaction and how much it has done
    hist,              \* [p]: history of the session's transaction, per scope and
                       \*      relation: the filenode of its last RelationMapUpdateMap
                       \*      (0: none), the filenode a pending update held for
                       \*      the relation if that call was immediate (0: none), what
                       \*      RelationMapOidToFilenode answered when it began, and
                       \*      whether its perform_relmap_update found the session's
                       \*      map behind the file
    phase,             \* [p]: 0 after RelationMapInitialize, 1 after Phase2, 2 after Phase3
    env,               \* settings fixed at start: allowSystemTableMods,
                       \*      IsInplaceUpgrade, the bootstrap-mode sessions
    budget,            \* I/O failures and file damage still to be injected
    background_worker_data,  \* BackgroundWorkerArray as main memory holds it: the
                       \*      slots and the two parallel-worker counters
    store_buffer,      \* [agent]: stores issued and not yet in main memory, oldest
                       \*      first, with the barriers between them
    background_worker_list,  \* [slot]: the postmaster's RegisteredBgWorker, if any
    pm,                \* the postmaster: where it stands in BackgroundWorkerStateChange,
                       \*      and whether PMSIGNAL_BACKGROUND_WORKER_CHANGE is pending
    BackgroundWorkerLock,    \* exclusive holder (0: none), shared holders
    bgw_pc,            \* [p]: where backend p stands in a bgworker call
    bgw_frame,         \* [p]: its BackgroundWorkerHandle, arguments, locals, results
    registered         \* [slot]: history: the last registration made in the slot

\* the relation mapper's state, and the background workers' state
relmapVars == <<real_map, active_updates, pending_updates, pc, frame, CritSectionCount,
                lock, file, wal, sinval, preserved, xact, hist, phase, env, budget>>
bgwVars == <<background_worker_data, store_buffer, background_worker_list, pm,
             BackgroundWorkerLock, bgw_pc, bgw_frame, registered>>

vars == <<relmapVars, bgwVars>>

sessVars == <<real_map, active_updates, pending_updates>>
diskVars == <<file, wal, preserved>>
xactVars == <<xact, hist>>

\* a file copy: what read() returns (data) and what has reached stable storage
\* (durable); each is missing ("nofile"), shorter than sizeof(RelMapFile)
\* ("short") or a whole image ("full")
NoFile == [st |-> "nofile", img |-> ZeroMap]
ShortFile == [st |-> "short", img |-> ZeroMap]
FullFile(map) == [st |-> "full", img |-> map]

NoFrame ==
    [caller |-> "none", shared |-> FALSE, file_name |-> "map", fix_backup |-> FALSE,
     retry |-> FALSE, backupfile |-> FALSE, new_map |-> ZeroMap, i |-> 0,
     write_wal |-> FALSE, send_sinval |-> FALSE, preserve_files |-> FALSE,
     lsn |-> 0]

NoHist ==
    [last |-> [s \in BOOLEAN |-> [o \in Oids |-> 0]],
     shadow |-> [s \in BOOLEAN |-> [o \in Oids |-> 0]],
     before |-> [s \in BOOLEAN |-> [o \in Oids |-> 0]],
     stale |-> [s \in BOOLEAN |-> FALSE],
     errcode |-> "none"]

IsBootstrapProcessingMode(p) == p \in env.bootstrap

Panicked == \E q \in Procs : pc[q] = "panic"

\* a session that finished InitPostgres (or runs the bootstrap)
Ready(p) == phase[p] = 2

\* ------------------------------------------------------------ LWLock
LockFree == lock.excl = 0 /\ lock.shared = {}
CanLockShared == lock.excl = 0
LWLockAcquireExclusive(p) == [excl |-> p, shared |-> {}]
LWLockAcquireShared(p) == [lock EXCEPT !.shared = @ \cup {p}]
LWLockRelease(p) ==
    [excl |-> IF lock.excl = p THEN 0 ELSE lock.excl, shared |-> lock.shared \ {p}]

\* ------------------------------------------------------------ ereport
\* inside a critical section every ERROR or FATAL is a PANIC; an ERROR with
\* no transaction to unwind to (session start, bootstrap) ends the session
EffectiveLevel(p, elevel) ==
    IF elevel \in {"ERROR", "FATAL"} /\ CritSectionCount[p] > 0 THEN "PANIC"
    ELSE IF elevel = "ERROR" /\ (~Ready(p) \/ IsBootstrapProcessingMode(p)) THEN "FATAL"
    ELSE elevel

\* data_sync_elevel: a failed fsync is a PANIC unless data_sync_retry is set
data_sync_elevel(elevel) == IF env.data_sync_retry THEN elevel ELSE "PANIC"

\* ereport(elevel) in session p: ERROR unwinds to the transaction abort, FATAL
\* ends the session (its locks are released), PANIC takes the whole server down
Ereport(p, elevel) ==
    LET lvl == EffectiveLevel(p, elevel) IN
    /\ pc' = [pc EXCEPT ![p] = CASE lvl = "ERROR" -> "error"
                                 [] lvl = "FATAL" -> "dead"
                                 [] OTHER -> "panic"]
    /\ lock' = IF lvl = "FATAL" THEN LWLockRelease(p) ELSE lock

\* the outcomes an I/O step can have while failures are still to be injected
Outcomes == IF budget.faults > 0 THEN {"ok", "fail"} ELSE {"ok"}
Spend(o) == budget' = IF o = "fail" THEN [budget EXCEPT !.faults = @ - 1] ELSE budget

\* ------------------------------------------------- RelationMapOidToFilenode
\* the search of one map: the filenode of the first mapping of the relation
RelationMapOidToFilenode_In(map, relationId) ==
    IF FirstOid(map, relationId) # 0
    THEN Slot(map, FirstOid(map, relationId)).mapfilenode
    ELSE InvalidOid

\* a lookup that believes the main map over the active updates
RelationMapOidToFilenode_MapFirst(p, relationId, shared) ==
    LET a == active_updates[p][shared]
        m == real_map[p][shared]
    IN IF FirstOid(m, relationId) # 0
       THEN Slot(m, FirstOid(m, relationId)).mapfilenode
       ELSE IF FirstOid(a, relationId) # 0
       THEN Slot(a, FirstOid(a, relationId)).mapfilenode
       ELSE InvalidOid

RelationMapOidToFilenode(p, relationId, shared) ==
    LET a == active_updates[p][shared]
        m == real_map[p][shared]
    IN IF FirstOid(a, relationId) # 0
       THEN Slot(a, FirstOid(a, relationId)).mapfilenode
       ELSE IF FirstOid(m, relationId) # 0
       THEN Slot(m, FirstOid(m, relationId)).mapfilenode
       ELSE InvalidOid

RelationMapFilenodeToOid(p, filenode, shared) ==
    LET a == active_updates[p][shared]
        m == real_map[p][shared]
    IN IF FirstFilenode(a, filenode) # 0
       THEN Slot(a, FirstFilenode(a, filenode)).mapoid
       ELSE IF FirstFilenode(m, filenode) # 0
       THEN Slot(m, FirstFilenode(m, filenode)).mapoid
       ELSE InvalidOid

\* ----------------------------------------------------- the transaction
\* The first map change of a session's next transaction opens it.
InXact(p) == xact[p].state = "inprogress"
CanOpenXact(p) == xact[p].state # "inprogress" /\ xact[p].count < MaxXacts

OpenedXact(p) ==
    IF InXact(p) THEN xact[p]
    ELSE [state |-> "inprogress", nstage |-> 0, count |-> xact[p].count + 1]

\* which map RelationMapUpdateMap changes
UpdateTarget(p, immediate) ==
    IF IsBootstrapProcessingMode(p) THEN "real"
    ELSE IF immediate THEN "active" ELSE "pending"

\* RelationMapUpdateMap without the tests of the nest level and parallel mode
RelationMapUpdateMap_AnyLevel(p, relationId, fileNode, shared, immediate, nestLevel, inParallel) ==
    /\ ~Panicked /\ pc[p] = "idle" /\ Ready(p)
    /\ (InXact(p) \/ CanOpenXact(p))
    /\ OpenedXact(p).nstage < MaxStage
    /\ LET x == OpenedXact(p)
           h == IF InXact(p) THEN hist[p]
                ELSE [NoHist EXCEPT !.before =
                        [s \in BOOLEAN |-> [o \in Oids |-> RelationMapOidToFilenode(p, o, s)]]]
           tgt == UpdateTarget(p, immediate)
           old == CASE tgt = "real" -> real_map[p][shared]
                    [] tgt = "active" -> active_updates[p][shared]
                    [] OTHER -> pending_updates[p][shared]
           r == apply_map_update(old, relationId, fileNode, TRUE)
           refused == FALSE
           failed == refused \/ r.err # "none"
       IN /\ xact' = [xact EXCEPT ![p] = [x EXCEPT !.nstage = @ + 1]]
          /\ hist' = [hist EXCEPT ![p] =
                         IF failed
                         THEN [h EXCEPT !.errcode =
                                 IF refused THEN "ERRCODE_FEATURE_NOT_SUPPORTED" ELSE r.err]
                         ELSE [h EXCEPT !.last[shared][relationId] = fileNode,
                                        !.shadow[shared][relationId] =
                                            IF tgt = "active"
                                            THEN RelationMapOidToFilenode_In(
                                                     pending_updates[p][shared], relationId)
                                            ELSE InvalidOid]]
          /\ real_map' = IF ~failed /\ tgt = "real"
                         THEN [real_map EXCEPT ![p][shared] = r.map] ELSE real_map
          /\ active_updates' = IF ~failed /\ tgt = "active"
                               THEN [active_updates EXCEPT ![p][shared] = r.map]
                               ELSE active_updates
          /\ pending_updates' = IF ~failed /\ tgt = "pending"
                                THEN [pending_updates EXCEPT ![p][shared] = r.map]
                                ELSE pending_updates
          /\ IF failed THEN Ereport(p, "ERROR") ELSE UNCHANGED <<pc, lock>>
    /\ UNCHANGED <<frame, CritSectionCount, diskVars, sinval, phase, env, bgwVars, budget>>

\* RelationMapUpdateMap, with what GetCurrentTransactionNestLevel() and
\* IsInParallelMode() answer as inputs
RelationMapUpdateMap(p, relationId, fileNode, shared, immediate, nestLevel, inParallel) ==
    /\ ~Panicked /\ pc[p] = "idle" /\ Ready(p)
    /\ (InXact(p) \/ CanOpenXact(p))
    /\ OpenedXact(p).nstage < MaxStage
    /\ LET x == OpenedXact(p)
           h == IF InXact(p) THEN hist[p]
                ELSE [NoHist EXCEPT !.before =
                        [s \in BOOLEAN |-> [o \in Oids |-> RelationMapOidToFilenode(p, o, s)]]]
           tgt == UpdateTarget(p, immediate)
           old == CASE tgt = "real" -> real_map[p][shared]
                    [] tgt = "active" -> active_updates[p][shared]
                    [] OTHER -> pending_updates[p][shared]
           r == apply_map_update(old, relationId, fileNode, TRUE)
           refused == ~IsBootstrapProcessingMode(p) /\ (nestLevel > 1 \/ inParallel)
           failed == refused \/ r.err # "none"
       IN /\ xact' = [xact EXCEPT ![p] = [x EXCEPT !.nstage = @ + 1]]
          /\ hist' = [hist EXCEPT ![p] =
                         IF failed
                         THEN [h EXCEPT !.errcode =
                                 IF refused THEN "ERRCODE_FEATURE_NOT_SUPPORTED" ELSE r.err]
                         ELSE [h EXCEPT !.last[shared][relationId] = fileNode,
                                        !.shadow[shared][relationId] =
                                            IF tgt = "active"
                                            THEN RelationMapOidToFilenode_In(
                                                     pending_updates[p][shared], relationId)
                                            ELSE InvalidOid]]
          /\ real_map' = IF ~failed /\ tgt = "real"
                         THEN [real_map EXCEPT ![p][shared] = r.map] ELSE real_map
          /\ active_updates' = IF ~failed /\ tgt = "active"
                               THEN [active_updates EXCEPT ![p][shared] = r.map]
                               ELSE active_updates
          /\ pending_updates' = IF ~failed /\ tgt = "pending"
                                THEN [pending_updates EXCEPT ![p][shared] = r.map]
                                ELSE pending_updates
          /\ IF failed THEN Ereport(p, "ERROR") ELSE UNCHANGED <<pc, lock>>
    /\ UNCHANGED <<frame, CritSectionCount, diskVars, sinval, phase, env, bgwVars, budget>>

\* RelationMapRemoveMapping
RelationMapRemoveMapping(p, relationId) ==
    /\ ~Panicked /\ pc[p] = "idle" /\ Ready(p) /\ InXact(p)
    /\ LET map == active_updates[p][FALSE]
           i == FirstOid(map, relationId)
       IN IF i # 0
          THEN /\ active_updates' = [active_updates EXCEPT ![p][FALSE] =
                     [map EXCEPT
                        !.mappings = SubSeq(WithSlot(@, i, Slot(map, map.num_mappings)),
                                            1, map.num_mappings - 1),
                        !.num_mappings = @ - 1]]
               /\ hist' = [hist EXCEPT ![p].last[FALSE][relationId] = 0,
                                       ![p].shadow[FALSE][relationId] = InvalidOid]
               /\ UNCHANGED <<pc, lock>>
          ELSE /\ UNCHANGED active_updates
               /\ hist' = [hist EXCEPT ![p].errcode = "ERRCODE_NO_DATA_FOUND"]
               /\ Ereport(p, "ERROR")
    /\ UNCHANGED <<real_map, pending_updates, frame, CritSectionCount, diskVars, sinval,
                   xact, phase, env, bgwVars, budget>>

\* AtCCI_RelationMap: the shared scope first, then the local one; an error in
\* merge_map_updates leaves the scope it hit half merged and the rest untouched
AtCCI_RelationMap(p) ==
    /\ ~Panicked /\ pc[p] = "idle" /\ Ready(p) /\ InXact(p)
    /\ LET rs == merge_map_updates(active_updates[p][TRUE], pending_updates[p][TRUE], TRUE)
           doS == pending_updates[p][TRUE].num_mappings # 0
           errS == doS /\ rs.err # "none"
           rl == merge_map_updates(active_updates[p][FALSE], pending_updates[p][FALSE], TRUE)
           doL == ~errS /\ pending_updates[p][FALSE].num_mappings # 0
           errL == doL /\ rl.err # "none"
       IN /\ active_updates' = [active_updates EXCEPT
                ![p][TRUE] = IF doS THEN rs.map ELSE @,
                ![p][FALSE] = IF doL THEN rl.map ELSE @]
          /\ pending_updates' = [pending_updates EXCEPT
                ![p][TRUE] = IF doS /\ ~errS THEN ResetMap(@) ELSE @,
                ![p][FALSE] = IF doL /\ ~errL THEN ResetMap(@) ELSE @]
          /\ hist' = IF errS THEN [hist EXCEPT ![p].errcode = rs.err]
                     ELSE IF errL THEN [hist EXCEPT ![p].errcode = rl.err]
                     ELSE hist
          /\ IF errS \/ errL THEN Ereport(p, "ERROR") ELSE UNCHANGED <<pc, lock>>
    /\ UNCHANGED <<real_map, frame, CritSectionCount, diskVars, sinval, xact, phase,
                   env, bgwVars, budget>>

NoPending(p) ==
    /\ pending_updates[p][TRUE].num_mappings = 0
    /\ pending_updates[p][FALSE].num_mappings = 0

\* the frame of perform_relmap_update(shared, active updates of that scope)
PerformFrame(shared) == [NoFrame EXCEPT !.caller = "perform", !.shared = shared]

\* AtEOXact_RelationMap whose abort branch forgets the pending updates
AtEOXact_RelationMap_KeepsPending(p, isCommit, isParallelWorker) ==
    /\ ~Panicked /\ pc[p] = "idle" /\ Ready(p) /\ InXact(p)
    /\ (isCommit \/ isParallelWorker) => NoPending(p)
    /\ IF isCommit /\ ~isParallelWorker
       THEN /\ IF active_updates[p][TRUE].num_mappings # 0
               THEN /\ pc' = [pc EXCEPT ![p] = "pru_lock"]
                    /\ frame' = [frame EXCEPT ![p] = PerformFrame(TRUE)]
                    /\ UNCHANGED xact
               ELSE IF active_updates[p][FALSE].num_mappings # 0
               THEN /\ pc' = [pc EXCEPT ![p] = "pru_lock"]
                    /\ frame' = [frame EXCEPT ![p] = PerformFrame(FALSE)]
                    /\ UNCHANGED xact
               ELSE /\ xact' = [xact EXCEPT ![p].state = "committed"]
                    /\ UNCHANGED <<pc, frame>>
            /\ UNCHANGED <<active_updates, pending_updates>>
       ELSE /\ active_updates' = [active_updates EXCEPT ![p] = [s \in BOOLEAN |-> ResetMap(@[s])]]
            /\ xact' = [xact EXCEPT ![p].state = "aborted"]
            /\ UNCHANGED <<pc, frame, pending_updates>>
    /\ UNCHANGED <<real_map, CritSectionCount, lock, diskVars, sinval, hist, phase,
                   env, bgwVars, budget>>

\* AtEOXact_RelationMap.  Its Asserts are the conditions it is called under:
\* no pending update is left at a commit, nor in a parallel worker.  The
\* commit branch goes on in perform_relmap_update, one scope after the other.
AtEOXact_RelationMap(p, isCommit, isParallelWorker) ==
    /\ ~Panicked /\ pc[p] = "idle" /\ Ready(p) /\ InXact(p)
    /\ (isCommit \/ isParallelWorker) => NoPending(p)
    /\ IF isCommit /\ ~isParallelWorker
       THEN /\ IF active_updates[p][TRUE].num_mappings # 0
               THEN /\ pc' = [pc EXCEPT ![p] = "pru_lock"]
                    /\ frame' = [frame EXCEPT ![p] = PerformFrame(TRUE)]
                    /\ UNCHANGED xact
               ELSE IF active_updates[p][FALSE].num_mappings # 0
               THEN /\ pc' = [pc EXCEPT ![p] = "pru_lock"]
                    /\ frame' = [frame EXCEPT ![p] = PerformFrame(FALSE)]
                    /\ UNCHANGED xact
               ELSE /\ xact' = [xact EXCEPT ![p].state = "committed"]
                    /\ UNCHANGED <<pc, frame>>
            /\ UNCHANGED <<active_updates, pending_updates>>
       ELSE /\ active_updates' = [active_updates EXCEPT ![p] = [s \in BOOLEAN |-> ResetMap(@[s])]]
            /\ pending_updates' = [pending_updates EXCEPT ![p] = [s \in BOOLEAN |-> ResetMap(@[s])]]
            /\ xact' = [xact EXCEPT ![p].state = "aborted"]
            /\ UNCHANGED <<pc, frame>>
    /\ UNCHANGED <<real_map, CritSectionCount, lock, diskVars, sinval, hist, phase,
                   env, bgwVars, budget>>

\* the commit branch without "active updates->num_mappings = 0"
AtEOXactNext_NoReset(p) ==
    /\ ~Panicked /\ pc[p] = "eox_next"
    /\ IF frame[p].shared /\ active_updates[p][FALSE].num_mappings # 0
       THEN /\ pc' = [pc EXCEPT ![p] = "pru_lock"]
            /\ frame' = [frame EXCEPT ![p] = PerformFrame(FALSE)]
            /\ UNCHANGED xact
       ELSE /\ pc' = [pc EXCEPT ![p] = "idle"]
            /\ frame' = [frame EXCEPT ![p] = NoFrame]
            /\ xact' = [xact EXCEPT ![p].state = "committed"]
    /\ UNCHANGED <<sessVars, CritSectionCount, lock, diskVars, sinval,
                   hist, phase, env, bgwVars, budget>>

\* AtEOXact_RelationMap(true, false) after perform_relmap_update returned for
\* frame.shared: reset that scope's active updates and go on with the next
AtEOXactNext(p) ==
    /\ ~Panicked /\ pc[p] = "eox_next"
    /\ active_updates' = [active_updates EXCEPT ![p][frame[p].shared] = ResetMap(@)]
    /\ IF frame[p].shared /\ active_updates[p][FALSE].num_mappings # 0
       THEN /\ pc' = [pc EXCEPT ![p] = "pru_lock"]
            /\ frame' = [frame EXCEPT ![p] = PerformFrame(FALSE)]
            /\ UNCHANGED xact
       ELSE /\ pc' = [pc EXCEPT ![p] = "idle"]
            /\ frame' = [frame EXCEPT ![p] = NoFrame]
            /\ xact' = [xact EXCEPT ![p].state = "committed"]
    /\ UNCHANGED <<real_map, pending_updates, CritSectionCount, lock, diskVars, sinval,
                   hist, phase, env, bgwVars, budget>>

\* The transaction abort an ERROR unwinds to: the session's LWLocks are
\* released and AtEOXact_RelationMap(false, false) drops every update.
AbortAfterError(p) ==
    /\ ~Panicked /\ pc[p] = "error"
    /\ pc' = [pc EXCEPT ![p] = "idle"]
    /\ frame' = [frame EXCEPT ![p] = NoFrame]
    /\ lock' = LWLockRelease(p)
    /\ active_updates' = [active_updates EXCEPT ![p] = [s \in BOOLEAN |-> ResetMap(@[s])]]
    /\ pending_updates' = [pending_updates EXCEPT ![p] = [s \in BOOLEAN |-> ResetMap(@[s])]]
    /\ xact' = [xact EXCEPT ![p].state = "aborted"]
    /\ UNCHANGED <<real_map, CritSectionCount, diskVars, sinval, hist, phase, env, bgwVars, budget>>

\* the names of recover_relmap_file the other way round
CopyName_Swapped(backupfile) == IF backupfile THEN "map" ELSE "bak"

\* ------------------------------------------------------ load_relmap_file
CopyName(backupfile) == IF backupfile THEN "bak" ELSE "map"

\* the frame with which load_relmap_file(shared) starts for a caller
LoadFrame(caller, shared) == [NoFrame EXCEPT !.caller = caller, !.shared = shared]

\* load_relmap_file returns to its caller: perform_relmap_update goes on to
\* merge, RelationMapInvalidateAll loads the local map after the shared one if
\* that one is valid, every other caller releases the lock
LoadReturn(p) ==
    /\ ~Panicked /\ pc[p] = "load_ret"
    /\ IF frame[p].caller = "perform"
       THEN /\ pc' = [pc EXCEPT ![p] = "pru_merge"]
            /\ UNCHANGED frame
       ELSE IF /\ frame[p].caller = "invalidate_all"
               /\ frame[p].shared
               /\ real_map[p][FALSE].magic = RELMAPPER_FILEMAGIC
       THEN /\ pc' = [pc EXCEPT ![p] = "load_stat"]
            /\ frame' = [frame EXCEPT ![p] = LoadFrame("invalidate_all", FALSE)]
       ELSE /\ pc' = [pc EXCEPT ![p] = "unlock"]
            /\ UNCHANGED frame
    /\ UNCHANGED <<sessVars, CritSectionCount, lock, diskVars, sinval, xactVars, phase,
                   env, bgwVars, budget>>

\* stat() of the backup copy: ENOENT makes the load fix the backup under the
\* exclusive lock, any other failure is logged and the backup ignored
LoadStat(p) ==
    /\ ~Panicked /\ pc[p] = "load_stat"
    /\ \E o \in Outcomes :
        /\ Spend(o)
        /\ IF o = "ok" /\ file[frame[p].shared]["bak"].data.st = "nofile"
           THEN /\ frame' = [frame EXCEPT ![p].fix_backup = TRUE]
                /\ pc' = [pc EXCEPT ![p] = "load_release"]
           ELSE /\ pc' = [pc EXCEPT ![p] = "load_read"]
                /\ UNCHANGED frame
    /\ UNCHANGED <<sessVars, CritSectionCount, lock, diskVars, sinval, xactVars, phase, env, bgwVars>>

\* "switch to exclusive lock": LWLockRelease, then LWLockAcquire(LW_EXCLUSIVE)
LoadRelease(p) ==
    /\ ~Panicked /\ pc[p] = "load_release"
    /\ lock' = LWLockRelease(p)
    /\ pc' = [pc EXCEPT ![p] = "load_acquire"]
    /\ UNCHANGED <<sessVars, frame, CritSectionCount, diskVars, sinval, xactVars, phase,
                   env, bgwVars, budget>>

LoadAcquire(p) ==
    /\ ~Panicked /\ pc[p] = "load_acquire"
    /\ LockFree
    /\ lock' = LWLockAcquireExclusive(p)
    /\ pc' = [pc EXCEPT ![p] = "load_read"]
    /\ UNCHANGED <<sessVars, frame, CritSectionCount, diskVars, sinval, xactVars, phase,
                   env, bgwVars, budget>>

ReadOutcomes == IF budget.faults > 0 THEN {"ok", "open", "read", "close"} ELSE {"ok"}

\* load_relmap_file that leaves a missing backup copy missing
LoadRead_NoFix(p) ==
    /\ ~Panicked /\ pc[p] = "load_read"
    /\ \E o \in ReadOutcomes :
        LET fr == frame[p]
            f == file[fr.shared][fr.file_name].data
            map == f.img
        IN /\ budget' = IF o = "ok" THEN budget ELSE [budget EXCEPT !.faults = @ - 1]
           /\ IF o = "open" \/ f.st = "nofile" \/ o = "read" \/ f.st = "short"
              THEN /\ Ereport(p, "FATAL")
                   /\ UNCHANGED <<real_map, frame>>
              ELSE /\ real_map' = [real_map EXCEPT ![p][fr.shared] = map]
                   /\ IF o = "close"
                      THEN Ereport(p, "PANIC") /\ UNCHANGED frame
                      ELSE IF ~EQ_CRC32(map)
                      THEN IF ~fr.retry
                           THEN /\ frame' = [frame EXCEPT ![p].file_name = "bak",
                                                          ![p].retry = TRUE]
                                /\ pc' = [pc EXCEPT ![p] =
                                            IF fr.fix_backup THEN "load_read"
                                            ELSE "load_release"]
                                /\ UNCHANGED lock
                           ELSE Ereport(p, "FATAL") /\ UNCHANGED frame
                      ELSE IF ~ValidHeader(map)
                      THEN Ereport(p, "FATAL") /\ UNCHANGED frame
                      ELSE IF fr.retry
                      THEN /\ frame' = [frame EXCEPT ![p].backupfile = FALSE]
                           /\ pc' = [pc EXCEPT ![p] = "rec_open"]
                           /\ UNCHANGED lock
                      ELSE /\ pc' = [pc EXCEPT ![p] = "load_ret"]
                           /\ UNCHANGED <<frame, lock>>
    /\ UNCHANGED <<active_updates, pending_updates, CritSectionCount, diskVars, sinval,
                   xactVars, phase, env, bgwVars>>

\* from "loop:" to the end of the checks: open, read into the session's map,
\* close, verify the CRC (falling back to the backup copy once), check the
\* header, and go on to recover_relmap_file or return
LoadRead(p) ==
    /\ ~Panicked /\ pc[p] = "load_read"
    /\ \E o \in ReadOutcomes :
        LET fr == frame[p]
            f == file[fr.shared][fr.file_name].data
            map == f.img
        IN /\ budget' = IF o = "ok" THEN budget ELSE [budget EXCEPT !.faults = @ - 1]
           /\ IF o = "open" \/ f.st = "nofile" \/ o = "read" \/ f.st = "short"
              THEN /\ Ereport(p, "FATAL")
                   /\ UNCHANGED <<real_map, frame>>
              ELSE /\ real_map' = [real_map EXCEPT ![p][fr.shared] = map]
                   /\ IF o = "close"
                      THEN Ereport(p, "PANIC") /\ UNCHANGED frame
                      ELSE IF ~EQ_CRC32(map)
                      THEN IF ~fr.retry
                           THEN /\ frame' = [frame EXCEPT ![p].file_name = "bak",
                                                          ![p].retry = TRUE]
                                /\ pc' = [pc EXCEPT ![p] =
                                            IF fr.fix_backup THEN "load_read"
                                            ELSE "load_release"]
                                /\ UNCHANGED lock
                           ELSE Ereport(p, "FATAL") /\ UNCHANGED frame
                      ELSE IF ~ValidHeader(map)
                      THEN Ereport(p, "FATAL") /\ UNCHANGED frame
                      ELSE IF fr.retry \/ fr.fix_backup
                      THEN /\ frame' = [frame EXCEPT ![p].backupfile = ~fr.retry]
                           /\ pc' = [pc EXCEPT ![p] = "rec_open"]
                           /\ UNCHANGED lock
                      ELSE /\ pc' = [pc EXCEPT ![p] = "load_ret"]
                           /\ UNCHANGED <<frame, lock>>
    /\ UNCHANGED <<active_updates, pending_updates, CritSectionCount, diskVars, sinval,
                   xactVars, phase, env, bgwVars>>

\* --------------------------------------------------- recover_relmap_file
\* BasicOpenFile(O_CREAT | O_TRUNC | O_WRONLY): the copy is emptied
RecoverOpen(p) ==
    /\ ~Panicked /\ pc[p] = "rec_open"
    /\ \E o \in Outcomes :
        /\ Spend(o)
        /\ IF o = "fail"
           THEN Ereport(p, "ERROR") /\ UNCHANGED file
           ELSE /\ file' = [file EXCEPT
                       ![frame[p].shared][CopyName(frame[p].backupfile)].data = ShortFile]
                /\ pc' = [pc EXCEPT ![p] = "rec_write"]
                /\ UNCHANGED lock
    /\ UNCHANGED <<sessVars, frame, CritSectionCount, wal, preserved, sinval, xactVars,
                   phase, env, bgwVars>>

\* the map written over the copy that was not to be rewritten
RecoverWrite_OtherCopy(p) ==
    /\ ~Panicked /\ pc[p] = "rec_write"
    /\ \E o \in Outcomes :
        /\ Spend(o)
        /\ IF o = "fail"
           THEN Ereport(p, "PANIC") /\ UNCHANGED file
           ELSE /\ file' = [file EXCEPT
                       ![frame[p].shared][CopyName(~frame[p].backupfile)].data =
                           FullFile(real_map[p][frame[p].shared])]
                /\ pc' = [pc EXCEPT ![p] = "rec_fsync"]
                /\ UNCHANGED lock
    /\ UNCHANGED <<sessVars, frame, CritSectionCount, wal, preserved, sinval, xactVars,
                   phase, env, bgwVars>>

\* write() of the session's map of that scope
RecoverWrite(p) ==
    /\ ~Panicked /\ pc[p] = "rec_write"
    /\ \E o \in Outcomes :
        /\ Spend(o)
        /\ IF o = "fail"
           THEN Ereport(p, "PANIC") /\ UNCHANGED file
           ELSE /\ file' = [file EXCEPT
                       ![frame[p].shared][CopyName(frame[p].backupfile)].data =
                           FullFile(real_map[p][frame[p].shared])]
                /\ pc' = [pc EXCEPT ![p] = "rec_fsync"]
                /\ UNCHANGED lock
    /\ UNCHANGED <<sessVars, frame, CritSectionCount, wal, preserved, sinval, xactVars,
                   phase, env, bgwVars>>

\* a failed pg_fsync reported as an ERROR
RecoverFsync_Error(p) ==
    /\ ~Panicked /\ pc[p] = "rec_fsync"
    /\ \E o \in Outcomes :
        /\ Spend(o)
        /\ IF o = "fail"
           THEN Ereport(p, "ERROR") /\ UNCHANGED file
           ELSE /\ file' = [file EXCEPT
                       ![frame[p].shared][CopyName(frame[p].backupfile)] =
                           [data |-> @.data, durable |-> @.data]]
                /\ pc' = [pc EXCEPT ![p] = "rec_close"]
                /\ UNCHANGED lock
    /\ UNCHANGED <<sessVars, frame, CritSectionCount, wal, preserved, sinval, xactVars,
                   phase, env, bgwVars>>

RecoverFsync(p) ==
    /\ ~Panicked /\ pc[p] = "rec_fsync"
    /\ \E o \in Outcomes :
        /\ Spend(o)
        /\ IF o = "fail"
           THEN Ereport(p, "PANIC") /\ UNCHANGED file
           ELSE /\ file' = [file EXCEPT
                       ![frame[p].shared][CopyName(frame[p].backupfile)] =
                           [data |-> @.data, durable |-> @.data]]
                /\ pc' = [pc EXCEPT ![p] = "rec_close"]
                /\ UNCHANGED lock
    /\ UNCHANGED <<sessVars, frame, CritSectionCount, wal, preserved, sinval, xactVars,
                   phase, env, bgwVars>>

RecoverClose(p) ==
    /\ ~Panicked /\ pc[p] = "rec_close"
    /\ \E o \in Outcomes :
        /\ Spend(o)
        /\ IF o = "fail"
           THEN Ereport(p, "ERROR")
           ELSE /\ pc' = [pc EXCEPT ![p] = "load_ret"]
                /\ UNCHANGED lock
    /\ UNCHANGED <<sessVars, frame, CritSectionCount, diskVars, sinval, xactVars, phase, env, bgwVars>>

\* ---------------------------------------------------- write_relmap_file
\* "Fill in the overhead fields and update CRC"
WithOverhead(newmap) ==
    LET m == [newmap EXCEPT !.magic = RELMAPPER_FILEMAGIC]
    IN [m EXCEPT !.crc = ComputeCrc(m)]

BogusMapping(newmap) == newmap.num_mappings < 0 \/ newmap.num_mappings > MAX_MAPPINGS

\* the two names the other way round
WriteName_PrimaryFirst(i) == IF i = 0 THEN "map" ELSE "bak"

\* fname[i]: the backup copy is written first, the primary second
WriteName(i) == IF i = 0 THEN "bak" ELSE "map"

\* what a write() that stops early can leave in a copy that held old: a
\* prefix of the new image over the rest of the old one
TornWrites(old, new) ==
    IF old.st # "full" THEN {ShortFile}
    ELSE {old,
          FullFile([old.img EXCEPT !.magic = new.magic]),
          FullFile([old.img EXCEPT !.magic = new.magic,
                                   !.num_mappings = new.num_mappings]),
          FullFile([new EXCEPT !.crc = old.img.crc])}

\* perform_relmap_update that trusts the session's map and does not re-read
PerformLock_NoReread(p) ==
    /\ ~Panicked /\ pc[p] = "pru_lock"
    /\ LockFree
    /\ lock' = LWLockAcquireExclusive(p)
    /\ pc' = [pc EXCEPT ![p] = "pru_merge"]
    /\ hist' = [hist EXCEPT ![p].stale[frame[p].shared] =
                    real_map[p][frame[p].shared] # file[frame[p].shared]["map"].data.img]
    /\ UNCHANGED <<sessVars, frame, CritSectionCount, diskVars, sinval, xact, phase,
                   env, bgwVars, budget>>

\* perform_relmap_update takes RelationMappingLock exclusively and calls
\* load_relmap_file
PerformLock(p) ==
    /\ ~Panicked /\ pc[p] = "pru_lock"
    /\ LockFree
    /\ lock' = LWLockAcquireExclusive(p)
    /\ pc' = [pc EXCEPT ![p] = "load_stat"]
    /\ hist' = [hist EXCEPT ![p].stale[frame[p].shared] =
                    real_map[p][frame[p].shared] # file[frame[p].shared]["map"].data.img]
    /\ UNCHANGED <<sessVars, frame, CritSectionCount, diskVars, sinval, xact, phase,
                   env, bgwVars, budget>>

\* the map perform_relmap_update starts from: the session's map of the scope,
\* which load_relmap_file has just re-read
PerformBase(p, shared) == real_map[p][shared]

\* perform_relmap_update that lets every update add a mapping
PerformMerge_AddOkay(p) ==
    /\ ~Panicked /\ pc[p] = "pru_merge"
    /\ LET shared == frame[p].shared
           r == merge_map_updates(PerformBase(p, shared), active_updates[p][shared],
                                  TRUE)
       IN IF r.err # "none" \/ BogusMapping(r.map)
          THEN /\ Ereport(p, "ERROR")
               /\ hist' = [hist EXCEPT ![p].errcode =
                              IF r.err # "none" THEN r.err
                              ELSE "ERRCODE_NUMERIC_VALUE_OUT_OF_RANGE"]
               /\ UNCHANGED frame
          ELSE /\ frame' = [frame EXCEPT ![p].new_map = WithOverhead(r.map),
                                         ![p].i = 0,
                                         ![p].write_wal = TRUE,
                                         ![p].send_sinval = TRUE,
                                         ![p].preserve_files = TRUE]
               /\ pc' = [pc EXCEPT ![p] = "w_open"]
               /\ UNCHANGED <<lock, hist>>
    /\ UNCHANGED <<sessVars, CritSectionCount, diskVars, sinval, xact, phase, env, bgwVars, budget>>

\* perform_relmap_update after the re-read: copy the map, merge the active
\* updates of the scope, and enter write_relmap_file(shared, &new_map, true,
\* true, true) up to its first BasicOpenFile
PerformMerge(p) ==
    /\ ~Panicked /\ pc[p] = "pru_merge"
    /\ LET shared == frame[p].shared
           r == merge_map_updates(PerformBase(p, shared), active_updates[p][shared],
                                  env.allowSystemTableMods \/ env.IsInplaceUpgrade)
       IN IF r.err # "none" \/ BogusMapping(r.map)
          THEN /\ Ereport(p, "ERROR")
               /\ hist' = [hist EXCEPT ![p].errcode =
                              IF r.err # "none" THEN r.err
                              ELSE "ERRCODE_NUMERIC_VALUE_OUT_OF_RANGE"]
               /\ UNCHANGED frame
          ELSE /\ frame' = [frame EXCEPT ![p].new_map = WithOverhead(r.map),
                                         ![p].i = 0,
                                         ![p].write_wal = TRUE,
                                         ![p].send_sinval = TRUE,
                                         ![p].preserve_files = TRUE]
               /\ pc' = [pc EXCEPT ![p] = "w_open"]
               /\ UNCHANGED <<lock, hist>>
    /\ UNCHANGED <<sessVars, CritSectionCount, diskVars, sinval, xact, phase, env, bgwVars, budget>>

\* BasicOpenFile(O_WRONLY | O_CREAT) of copy fname[i]
WriteOpen(p) ==
    /\ ~Panicked /\ pc[p] = "w_open"
    /\ \E o \in Outcomes :
        LET shared == frame[p].shared
            name == WriteName(frame[p].i)
        IN /\ Spend(o)
           /\ IF o = "fail"
              THEN Ereport(p, "ERROR") /\ UNCHANGED file
              ELSE /\ file' = [file EXCEPT ![shared][name].data =
                                  IF @.st = "nofile" THEN ShortFile ELSE @]
                   /\ pc' = [pc EXCEPT ![p] =
                               IF frame[p].write_wal /\ frame[p].i = 0
                               THEN "w_xlog_insert" ELSE "w_write"]
                   /\ UNCHANGED lock
    /\ UNCHANGED <<sessVars, frame, CritSectionCount, wal, preserved, sinval, xactVars,
                   phase, env, bgwVars>>

\* XLogInsert without START_CRIT_SECTION
WriteXLogInsert_NoCritSection(p) ==
    /\ ~Panicked /\ pc[p] = "w_xlog_insert"
    /\ UNCHANGED CritSectionCount
    /\ \E o \in Outcomes :
        /\ Spend(o)
        /\ IF o = "fail"
           THEN Ereport(p, "PANIC") /\ UNCHANGED wal
           ELSE /\ wal' = Append(wal, [shared |-> frame[p].shared,
                                       data |-> frame[p].new_map,
                                       flushed |-> FALSE])
                /\ pc' = [pc EXCEPT ![p] = "w_xlog_flush"]
                /\ UNCHANGED lock
    /\ UNCHANGED <<sessVars, frame, file, preserved, sinval, xactVars, phase, env, bgwVars>>

\* START_CRIT_SECTION and XLogInsert of the record that carries new_map
WriteXLogInsert(p) ==
    /\ ~Panicked /\ pc[p] = "w_xlog_insert"
    /\ CritSectionCount' = [CritSectionCount EXCEPT ![p] = @ + 1]
    /\ \E o \in Outcomes :
        /\ Spend(o)
        /\ IF o = "fail"
           THEN Ereport(p, "PANIC") /\ UNCHANGED wal
           ELSE /\ wal' = Append(wal, [shared |-> frame[p].shared,
                                       data |-> frame[p].new_map,
                                       flushed |-> FALSE])
                /\ pc' = [pc EXCEPT ![p] = "w_xlog_flush"]
                /\ UNCHANGED lock
    /\ UNCHANGED <<sessVars, frame, file, preserved, sinval, xactVars, phase, env, bgwVars>>

\* XLogFlush that returns before the record is on disk
WriteXLogFlush_NoFlush(p) ==
    /\ ~Panicked /\ pc[p] = "w_xlog_flush"
    /\ \E o \in Outcomes :
        /\ Spend(o)
        /\ IF o = "fail"
           THEN Ereport(p, "ERROR") /\ UNCHANGED wal
           ELSE /\ UNCHANGED <<wal, lock>>
                /\ pc' = [pc EXCEPT ![p] = "w_write"]
    /\ UNCHANGED <<sessVars, frame, CritSectionCount, file, preserved, sinval, xactVars,
                   phase, env, bgwVars>>

\* XLogFlush(lsn): every record up to this one reaches the disk
WriteXLogFlush(p) ==
    /\ ~Panicked /\ pc[p] = "w_xlog_flush"
    /\ \E o \in Outcomes :
        /\ Spend(o)
        /\ IF o = "fail"
           THEN Ereport(p, "ERROR") /\ UNCHANGED wal
           ELSE /\ wal' = [k \in 1..Len(wal) |-> [wal[k] EXCEPT !.flushed = TRUE]]
                /\ pc' = [pc EXCEPT ![p] = "w_write"]
                /\ UNCHANGED lock
    /\ UNCHANGED <<sessVars, frame, CritSectionCount, file, preserved, sinval, xactVars,
                   phase, env, bgwVars>>

\* write(fd, newmap, sizeof(RelMapFile))
WriteData(p) ==
    /\ ~Panicked /\ pc[p] = "w_write"
    /\ \E o \in Outcomes :
        LET shared == frame[p].shared
            name == WriteName(frame[p].i)
        IN /\ Spend(o)
           /\ IF o = "fail"
              THEN /\ \E t \in TornWrites(file[shared][name].data, frame[p].new_map) :
                         file' = [file EXCEPT ![shared][name].data = t]
                   /\ Ereport(p, "ERROR")
              ELSE /\ file' = [file EXCEPT ![shared][name].data = FullFile(frame[p].new_map)]
                   /\ pc' = [pc EXCEPT ![p] = "w_fsync"]
                   /\ UNCHANGED lock
    /\ UNCHANGED <<sessVars, frame, CritSectionCount, wal, preserved, sinval, xactVars,
                   phase, env, bgwVars>>

\* a copy that is closed without pg_fsync
WriteFsync_NoSync(p) ==
    /\ ~Panicked /\ pc[p] = "w_fsync"
    /\ \E o \in Outcomes : Spend(o) /\ o # "fail"
    /\ pc' = [pc EXCEPT ![p] = "w_fsync_done"]
    /\ UNCHANGED <<file, lock>>
    /\ UNCHANGED <<sessVars, frame, CritSectionCount, wal, preserved, sinval, xactVars,
                   phase, env, bgwVars>>

\* pg_fsync(fd)
WriteFsync(p) ==
    /\ ~Panicked /\ pc[p] = "w_fsync"
    /\ \E o \in Outcomes :
        LET shared == frame[p].shared
            name == WriteName(frame[p].i)
        IN /\ Spend(o)
           /\ IF o = "fail"
              THEN Ereport(p, data_sync_elevel("ERROR")) /\ UNCHANGED file
              ELSE /\ file' = [file EXCEPT ![shared][name] =
                                  [data |-> @.data, durable |-> @.data]]
                   /\ pc' = [pc EXCEPT ![p] = "w_fsync_done"]
                   /\ UNCHANGED lock
    /\ UNCHANGED <<sessVars, frame, CritSectionCount, wal, preserved, sinval, xactVars,
                   phase, env, bgwVars>>

\* a loop that ends after its first copy
WriteClose_OneCopy(p) ==
    /\ ~Panicked /\ pc[p] = "w_fsync_done"
    /\ \E o \in Outcomes :
        /\ Spend(o)
        /\ IF o = "fail"
           THEN Ereport(p, "ERROR") /\ UNCHANGED frame
           ELSE /\ frame' = [frame EXCEPT ![p].i = 1]
                /\ pc' = [pc EXCEPT ![p] = "w_sinval"]
                /\ UNCHANGED lock
    /\ UNCHANGED <<sessVars, CritSectionCount, diskVars, sinval, xactVars, phase, env, bgwVars>>

\* close(fd), and on to the next copy or out of the loop
WriteClose(p) ==
    /\ ~Panicked /\ pc[p] = "w_fsync_done"
    /\ \E o \in Outcomes :
        /\ Spend(o)
        /\ IF o = "fail"
           THEN Ereport(p, "ERROR") /\ UNCHANGED frame
           ELSE /\ frame' = [frame EXCEPT ![p].i = IF @ = 0 THEN 1 ELSE @]
                /\ pc' = [pc EXCEPT ![p] = IF frame[p].i = 0 THEN "w_open" ELSE "w_sinval"]
                /\ UNCHANGED lock
    /\ UNCHANGED <<sessVars, CritSectionCount, diskVars, sinval, xactVars, phase, env, bgwVars>>

\* a writer that tells no other session
WriteSinval_NoSend(p) ==
    /\ ~Panicked /\ pc[p] = "w_sinval"
    /\ \E o \in (IF frame[p].send_sinval THEN Outcomes ELSE {"ok"}) :
        /\ Spend(o)
        /\ IF o = "fail"
           THEN Ereport(p, "ERROR") /\ UNCHANGED sinval
           ELSE /\ UNCHANGED sinval
                /\ pc' = [pc EXCEPT ![p] = "w_finish"]
                /\ UNCHANGED lock
    /\ UNCHANGED <<sessVars, frame, CritSectionCount, diskVars, xactVars, phase, env, bgwVars>>

\* CacheInvalidateRelmap(dbid): every other session is told to re-read the
\* scope's file
WriteSinval(p) ==
    /\ ~Panicked /\ pc[p] = "w_sinval"
    /\ \E o \in (IF frame[p].send_sinval THEN Outcomes ELSE {"ok"}) :
        /\ Spend(o)
        /\ IF o = "fail"
           THEN Ereport(p, "ERROR") /\ UNCHANGED sinval
           ELSE /\ sinval' = IF frame[p].send_sinval
                             THEN [q \in Procs |->
                                     IF q # p THEN sinval[q] \cup {frame[p].shared}
                                     ELSE sinval[q]]
                             ELSE sinval
                /\ pc' = [pc EXCEPT ![p] = "w_finish"]
                /\ UNCHANGED lock
    /\ UNCHANGED <<sessVars, frame, CritSectionCount, diskVars, xactVars, phase, env, bgwVars>>

\* the files RelationPreserveStorage is called for
PreservedBy(shared, newmap) ==
    {<<shared, Slot(newmap, k).mapfilenode>> : k \in 1..newmap.num_mappings}

\* RelationPreserveStorage for every mapping, the copy into the session's map,
\* END_CRIT_SECTION, and the return to the caller
WriteFinish(p) ==
    /\ ~Panicked /\ pc[p] = "w_finish"
    /\ \E o \in (IF frame[p].preserve_files THEN Outcomes ELSE {"ok"}) :
        /\ Spend(o)
        /\ IF o = "fail"
           THEN /\ Ereport(p, "ERROR")
                /\ UNCHANGED <<real_map, preserved, CritSectionCount>>
           ELSE /\ preserved' = IF frame[p].preserve_files
                                THEN preserved \cup PreservedBy(frame[p].shared, frame[p].new_map)
                                ELSE preserved
                /\ real_map' = [real_map EXCEPT ![p][frame[p].shared] = frame[p].new_map]
                /\ CritSectionCount' = [CritSectionCount EXCEPT ![p] =
                                           IF frame[p].write_wal THEN @ - 1 ELSE @]
                /\ pc' = [pc EXCEPT ![p] =
                            IF frame[p].caller = "redo" THEN "redo_next" ELSE "unlock"]
                /\ UNCHANGED lock
    /\ UNCHANGED <<active_updates, pending_updates, frame, file, wal, sinval, xactVars,
                   phase, env, bgwVars>>

\* ------------------------------------------------------------ relmap_redo
\* The server goes down with no session at work and comes up again: the
\* startup process p replays the log from its beginning over the map files
\* it finds, those the server left or those of a restored backup.
StartupXLOG(p, found) ==
    /\ ~Panicked
    /\ \A q \in Procs : pc[q] = "idle" /\ frame[q].caller = "none"
    /\ wal # <<>>
    /\ file' = found
    /\ frame' = [frame EXCEPT ![p] = [NoFrame EXCEPT !.caller = "redo"]]
    /\ pc' = [pc EXCEPT ![p] = "redo_next"]
    /\ UNCHANGED <<sessVars, CritSectionCount, lock, wal, preserved, sinval, xactVars,
                   phase, env, bgwVars, budget>>

\* relmap_redo of a record that says it is written again
relmap_redo_WritesWal(p) ==
    /\ ~Panicked /\ pc[p] = "redo_next"
    /\ frame[p].lsn < Len(wal)
    /\ LET xlrec == wal[frame[p].lsn + 1]
           new_map == WithOverhead(xlrec.data)
       IN /\ frame' = [frame EXCEPT ![p] =
                          [NoFrame EXCEPT !.caller = "redo", !.lsn = frame[p].lsn + 1,
                                          !.shared = xlrec.shared, !.new_map = new_map,
                                          !.write_wal = TRUE, !.send_sinval = TRUE]]
          /\ IF BogusMapping(xlrec.data)
             THEN Ereport(p, "ERROR")
             ELSE pc' = [pc EXCEPT ![p] = "w_open"] /\ UNCHANGED lock
    /\ UNCHANGED <<sessVars, CritSectionCount, diskVars, sinval, xactVars, phase, env,
                   bgwVars, budget>>

\* relmap_redo of the next XLOG_RELMAP_UPDATE record:
\* write_relmap_file(dbid == InvalidOid, &new_map, false, true, false, ...)
relmap_redo(p) ==
    /\ ~Panicked /\ pc[p] = "redo_next"
    /\ frame[p].lsn < Len(wal)
    /\ LET xlrec == wal[frame[p].lsn + 1]
           new_map == WithOverhead(xlrec.data)
       IN /\ frame' = [frame EXCEPT ![p] =
                          [NoFrame EXCEPT !.caller = "redo", !.lsn = frame[p].lsn + 1,
                                          !.shared = xlrec.shared, !.new_map = new_map,
                                          !.write_wal = FALSE, !.send_sinval = TRUE]]
          /\ IF BogusMapping(xlrec.data)
             THEN Ereport(p, "ERROR")
             ELSE pc' = [pc EXCEPT ![p] = "w_open"] /\ UNCHANGED lock
    /\ UNCHANGED <<sessVars, CritSectionCount, diskVars, sinval, xactVars, phase, env,
                   bgwVars, budget>>

\* LWLockRelease(RelationMappingLock) at the end of perform_relmap_update and
\* of the callers of load_relmap_file
Unlock(p) ==
    /\ ~Panicked /\ pc[p] = "unlock"
    /\ lock' = LWLockRelease(p)
    /\ IF frame[p].caller = "perform"
       THEN /\ pc' = [pc EXCEPT ![p] = "eox_next"]
            /\ UNCHANGED <<frame, phase>>
       ELSE /\ pc' = [pc EXCEPT ![p] = "idle"]
            /\ frame' = [frame EXCEPT ![p] = NoFrame]
            /\ phase' = [phase EXCEPT ![p] =
                            CASE frame[p].caller = "phase2" -> 1
                              [] frame[p].caller = "phase3" -> 2
                              [] OTHER -> @]
    /\ UNCHANGED <<sessVars, CritSectionCount, diskVars, sinval, xactVars, env, bgwVars, budget>>

\* the shared lock granted while another session holds the lock exclusively
LockShared_NoWait(p) ==
    /\ ~Panicked /\ pc[p] = "lock_shared"
    /\ lock' = LWLockAcquireShared(p)
    /\ IF frame[p].caller # "invalidate_all"
          \/ real_map[p][TRUE].magic = RELMAPPER_FILEMAGIC
       THEN /\ pc' = [pc EXCEPT ![p] = "load_stat"]
            /\ UNCHANGED frame
       ELSE IF real_map[p][FALSE].magic = RELMAPPER_FILEMAGIC
       THEN /\ pc' = [pc EXCEPT ![p] = "load_stat"]
            /\ frame' = [frame EXCEPT ![p] = LoadFrame("invalidate_all", FALSE)]
       ELSE /\ pc' = [pc EXCEPT ![p] = "unlock"]
            /\ UNCHANGED frame
    /\ UNCHANGED <<sessVars, CritSectionCount, diskVars, sinval, xactVars, phase, env, bgwVars, budget>>

\* ------------------------------------------- the callers of load_relmap_file
\* LWLockAcquire(RelationMappingLock, LW_SHARED) of RelationMapInvalidate,
\* RelationMapInvalidateAll and RelationMapInitializePhase2/3.
\* RelationMapInvalidateAll then loads the maps that are valid.
LockShared(p) ==
    /\ ~Panicked /\ pc[p] = "lock_shared"
    /\ CanLockShared
    /\ lock' = LWLockAcquireShared(p)
    /\ IF frame[p].caller # "invalidate_all"
          \/ real_map[p][TRUE].magic = RELMAPPER_FILEMAGIC
       THEN /\ pc' = [pc EXCEPT ![p] = "load_stat"]
            /\ UNCHANGED frame
       ELSE IF real_map[p][FALSE].magic = RELMAPPER_FILEMAGIC
       THEN /\ pc' = [pc EXCEPT ![p] = "load_stat"]
            /\ frame' = [frame EXCEPT ![p] = LoadFrame("invalidate_all", FALSE)]
       ELSE /\ pc' = [pc EXCEPT ![p] = "unlock"]
            /\ UNCHANGED frame
    /\ UNCHANGED <<sessVars, CritSectionCount, diskVars, sinval, xactVars, phase, env, bgwVars, budget>>

\* RelationMapInitializePhase2: load the shared map, unless bootstrapping
RelationMapInitializePhase2(p) ==
    /\ ~Panicked /\ pc[p] = "idle" /\ phase[p] = 0
    /\ IF IsBootstrapProcessingMode(p)
       THEN /\ phase' = [phase EXCEPT ![p] = 1]
            /\ UNCHANGED <<pc, frame>>
       ELSE /\ pc' = [pc EXCEPT ![p] = "lock_shared"]
            /\ frame' = [frame EXCEPT ![p] = LoadFrame("phase2", TRUE)]
            /\ UNCHANGED phase
    /\ UNCHANGED <<sessVars, CritSectionCount, lock, diskVars, sinval, xactVars, env, bgwVars, budget>>

\* RelationMapInitializePhase3: load the local map, unless bootstrapping
RelationMapInitializePhase3(p) ==
    /\ ~Panicked /\ pc[p] = "idle" /\ phase[p] = 1
    /\ IF IsBootstrapProcessingMode(p)
       THEN /\ phase' = [phase EXCEPT ![p] = 2]
            /\ UNCHANGED <<pc, frame>>
       ELSE /\ pc' = [pc EXCEPT ![p] = "lock_shared"]
            /\ frame' = [frame EXCEPT ![p] = LoadFrame("phase3", FALSE)]
            /\ UNCHANGED phase
    /\ UNCHANGED <<sessVars, CritSectionCount, lock, diskVars, sinval, xactVars, env, bgwVars, budget>>

\* a reload whether or not the map is valid
RelationMapInvalidate_Always(p, shared) ==
    /\ ~Panicked /\ pc[p] = "idle"
    /\ shared \in sinval[p]
    /\ sinval' = [sinval EXCEPT ![p] = @ \ {shared}]
    /\ pc' = [pc EXCEPT ![p] = "lock_shared"]
    /\ frame' = [frame EXCEPT ![p] = LoadFrame("invalidate", shared)]
    /\ UNCHANGED <<sessVars, CritSectionCount, lock, diskVars, xactVars, phase, env, bgwVars, budget>>

\* RelationMapInvalidate(shared), run for a message the session takes from
\* its queue: re-read only a map that is valid now
RelationMapInvalidate(p, shared) ==
    /\ ~Panicked /\ pc[p] = "idle"
    /\ shared \in sinval[p]
    /\ sinval' = [sinval EXCEPT ![p] = @ \ {shared}]
    /\ IF real_map[p][shared].magic = RELMAPPER_FILEMAGIC
       THEN /\ pc' = [pc EXCEPT ![p] = "lock_shared"]
            /\ frame' = [frame EXCEPT ![p] = LoadFrame("invalidate", shared)]
       ELSE UNCHANGED <<pc, frame>>
    /\ UNCHANGED <<sessVars, CritSectionCount, lock, diskVars, xactVars, phase, env, bgwVars, budget>>

\* RelationMapInvalidateAll, run when the session's queue was reset
RelationMapInvalidateAll(p) ==
    /\ ~Panicked /\ pc[p] = "idle"
    /\ budget.resets > 0
    /\ budget' = [budget EXCEPT !.resets = @ - 1]
    /\ sinval' = [sinval EXCEPT ![p] = {}]
    /\ pc' = [pc EXCEPT ![p] = "lock_shared"]
    /\ frame' = [frame EXCEPT ![p] = LoadFrame("invalidate_all", TRUE)]
    /\ UNCHANGED <<sessVars, CritSectionCount, lock, diskVars, xactVars, phase, env, bgwVars>>

\* ------------------------------------------------------------ damage
\* one word of an image changed on the medium: one of the header, or one of
\* the first mapping
Damaged(img) ==
    {[img EXCEPT !.num_mappings = @ + 1],
     [img EXCEPT !.mappings = WithSlot(@, 1, RelMapping(Slot(img, 1).mapoid,
                                                        Slot(img, 1).mapfilenode + 1))]}

\* a copy of a map file is damaged while no session has it open
DamageFile(shared, name) ==
    /\ ~Panicked
    /\ budget.damage > 0
    /\ LockFree
    /\ file[shared][name].data.st = "full"
    /\ budget' = [budget EXCEPT !.damage = @ - 1]
    /\ \E img \in Damaged(file[shared][name].data.img) :
          file' = [file EXCEPT ![shared][name] =
                      [data |-> FullFile(img), durable |-> FullFile(img)]]
    /\ UNCHANGED <<sessVars, pc, frame, CritSectionCount, lock, wal, preserved, sinval,
                   xactVars, phase, env, bgwVars>>

\* ===================================================== background workers
\* The backends and the postmaster share BackgroundWorkerArray.  Backends
\* change it under BackgroundWorkerLock; the postmaster takes no lock.  The
\* stores of an agent reach main memory one by one, in any order that keeps
\* the order of two stores to the same field and the order of stores on the
\* two sides of a barrier; an agent reads its own last store to a field if
\* main memory has not got it yet.

\* (ThreadId)-1, "not started yet"
InvalidPid == -1
\* g_instance.attr.attr_storage.max_background_workers, total_slots
max_background_workers == 1
\* g_instance.shmem_cxt.max_parallel_workers
max_parallel_workers == 1
\* the registrations made in the model
MaxRegistrations == 2

Postmaster == 0
Agents == Procs \cup {Postmaster}
\* slot[slotno], counted from 1 here
Slots == 1..max_background_workers
\* the thread ids do_start_bgworker can give a worker
ThreadIds == {7}

\* the part of BackgroundWorker the protocol looks at: BGWORKER_CLASS_PARALLEL
\* in bgw_flags, and bgw_notify_pid
Worker(parallel, notify_pid) == [parallel |-> parallel, bgw_notify_pid |-> notify_pid]
NoWorker == Worker(FALSE, 0)

\* a slot of zeroed shared memory that BackgroundWorkerShmemInit marked free
FreeSlot == [in_use |-> FALSE, terminate |-> FALSE, pid |-> 0, generation |-> 0,
             worker |-> NoWorker]

\* the fields of the BackgroundWorker a caller passes that
\* SanityCheckBackgroundWorker and the registration look at
BackgroundWorker(database_connection, shmem_access, postmaster_start, restart_time, parallel) ==
    [BGWORKER_BACKEND_DATABASE_CONNECTION |-> database_connection,
     BGWORKER_SHMEM_ACCESS |-> shmem_access,
     BgWorkerStart_PostmasterStart |-> postmaster_start,
     bgw_restart_time |-> restart_time,
     BGWORKER_CLASS_PARALLEL |-> parallel]

BGW_NEVER_RESTART == -1
\* USECS_PER_DAY / 1000, the longest restart interval
MaxRestartTime == 86400000

PlainWorker == BackgroundWorker(FALSE, TRUE, FALSE, BGW_NEVER_RESTART, FALSE)
ParallelWorker == BackgroundWorker(TRUE, TRUE, FALSE, BGW_NEVER_RESTART, TRUE)
\* the descriptors that a caller passes: the two above, which are never
\* restarted, and one for each complaint of SanityCheckBackgroundWorker
Descriptors ==
    {PlainWorker, ParallelWorker,
     BackgroundWorker(TRUE, FALSE, FALSE, BGW_NEVER_RESTART, FALSE),
     BackgroundWorker(TRUE, TRUE, TRUE, BGW_NEVER_RESTART, FALSE),
     BackgroundWorker(FALSE, TRUE, FALSE, BGW_NEVER_RESTART - 1, FALSE),
     BackgroundWorker(FALSE, TRUE, FALSE, MaxRestartTime + 1, FALSE),
     BackgroundWorker(FALSE, TRUE, FALSE, MaxRestartTime, TRUE)}

\* true if the descriptor looks ok
SanityCheckBackgroundWorker(worker) ==
    /\ worker.BGWORKER_BACKEND_DATABASE_CONNECTION =>
           /\ worker.BGWORKER_SHMEM_ACCESS
           /\ ~worker.BgWorkerStart_PostmasterStart
    /\ ~(\/ (worker.bgw_restart_time < 0 /\ worker.bgw_restart_time # BGW_NEVER_RESTART)
         \/ worker.bgw_restart_time > MaxRestartTime)
    /\ ~(worker.bgw_restart_time # BGW_NEVER_RESTART /\ worker.BGWORKER_CLASS_PARALLEL)

\* uint32 arithmetic of the two parallel counters, and the (int) cast of
\* their difference; the counters are 4 bits wide here, 32 in the code
Uint32 == 16
Incr32(x) == (x + 1) % Uint32
InFlight(register_count, terminate_count) ==
    LET d == (register_count - terminate_count) % Uint32
    IN IF d >= Uint32 \div 2 THEN d - Uint32 ELSE d

\* sigterm counts the SIGTERMs the postmaster has sent to the worker
NoRegisteredBgWorker ==
    [known |-> FALSE, rw_worker |-> NoWorker, rw_pid |-> 0, rw_terminate |-> FALSE,
     sigterm |-> 0]

NoHandle == [slot |-> 0, generation |-> 0]

NoBgwFrame ==
    [handle |-> NoHandle, worker |-> NoWorker, slotno |-> 0, generation |-> 0,
     success |-> FALSE, signal_postmaster |-> FALSE, stale |-> FALSE,
     status |-> "none", pid |-> 0, result |-> "none", wait |-> "none",
     latch |-> FALSE]

\* ------------------------------------------------------- stores and loads
\* a store to slot[slotno].field, or to a counter of the array (slotno 0)
Store(slotno, field, val) == [slotno |-> slotno, field |-> field, val |-> val]
Barrier == [slotno |-> 0, field |-> "barrier", val |-> 0]

\* a signal that overtakes the stores issued before it
Notified_BeforeStores(buf, notify_pid) ==
    IF notify_pid = 0 THEN buf
    ELSE <<[slotno |-> 0, field |-> "notify", val |-> notify_pid]>> \o buf

\* gs_signal_send(notify_pid, SIGUSR1) after the stores in buf: the signal
\* is in flight behind them, and reaches a backend that then sees them
Notified(buf, notify_pid) ==
    IF notify_pid = 0 THEN buf
    ELSE Append(buf, [slotno |-> 0, field |-> "notify", val |-> notify_pid])

\* pg_write_barrier / pg_memory_barrier after the stores in buf
WithBarrier(buf) ==
    IF buf = <<>> \/ buf[Len(buf)].field = "barrier" THEN buf ELSE Append(buf, Barrier)

\* what main memory holds
Mem(slotno, field) ==
    IF slotno = 0 THEN background_worker_data[field]
    ELSE background_worker_data.slot[slotno][field]

\* a load by agent a
Read(a, slotno, field) ==
    LET buf == store_buffer[a]
        S == {k \in 1..Len(buf) : buf[k].slotno = slotno /\ buf[k].field = field}
    IN IF S = {} THEN Mem(slotno, field)
       ELSE buf[CHOOSE k \in S : \A j \in S : j <= k].val

\* store k of buf may reach memory next
Drainable(buf, k) ==
    /\ buf[k].field # "barrier"
    /\ buf[k].field = "notify" => k = 1
    /\ \A j \in 1..(k - 1) :
          /\ buf[j].field # "barrier"
          /\ ~(buf[j].slotno = buf[k].slotno /\ buf[j].field = buf[k].field)

RECURSIVE StripBarriers(_)
StripBarriers(buf) ==
    IF buf # <<>> /\ buf[1].field = "barrier" THEN StripBarriers(Tail(buf)) ELSE buf

Written(data, st) ==
    IF st.field = "notify" THEN data
    ELSE IF st.slotno = 0 THEN [data EXCEPT ![st.field] = st.val]
    ELSE [data EXCEPT !.slot[st.slotno][st.field] = st.val]

\* the signal handler of backend p sets its latch; outside the two waiting
\* functions nothing here looks at the latch
SetLatch(frames, p) ==
    IF frames[p].wait = "none" \/ bgw_pc[p] = "idle" THEN frames
    ELSE [frames EXCEPT ![p].latch = TRUE]

\* one store of agent a reaches main memory, or a signal it sent arrives
Drain(a) ==
    /\ \E k \in 1..Len(store_buffer[a]) :
          /\ Drainable(store_buffer[a], k)
          /\ background_worker_data' = Written(background_worker_data, store_buffer[a][k])
          /\ store_buffer' = [store_buffer EXCEPT ![a] =
                StripBarriers(SubSeq(@, 1, k - 1) \o SubSeq(@, k + 1, Len(@)))]
          /\ bgw_frame' = IF store_buffer[a][k].field = "notify"
                          THEN SetLatch(bgw_frame, store_buffer[a][k].val)
                          ELSE bgw_frame
    /\ UNCHANGED <<relmapVars, background_worker_list, pm, BackgroundWorkerLock, bgw_pc,
                   registered>>

\* ------------------------------------------ RegisterDynamicBackgroundWorker
BgwLockFree == BackgroundWorkerLock.excl = 0 /\ BackgroundWorkerLock.shared = {}

\* LWLockRelease is a full barrier: the holder's stores are in memory by then
BgwLockRelease(p) ==
    [excl |-> IF BackgroundWorkerLock.excl = p THEN 0 ELSE BackgroundWorkerLock.excl,
     shared |-> BackgroundWorkerLock.shared \ {p}]

\* PMSIGNAL_BACKGROUND_WORKER_CHANGE; pending signals coalesce
SendPostmasterSignal(send) == [pm EXCEPT !.signal = @ \/ send]

\* the registrations made so far: every one raised a generation by one
RECURSIVE Registrations(_)
Registrations(i) == IF i = 0 THEN 0 ELSE Mem(i, "generation") + Registrations(i - 1)

\* the entry without the wait for BackgroundWorkerLock
RegisterDynamicBackgroundWorker_NoLock(p, worker, IsUnderPostmaster) ==
    /\ bgw_pc[p] = "idle"
    /\ IsUnderPostmaster /\ SanityCheckBackgroundWorker(worker)
    /\ BackgroundWorkerLock' = [BackgroundWorkerLock EXCEPT !.excl = p]
    /\ bgw_frame' = [bgw_frame EXCEPT
                        ![p].worker = Worker(worker.BGWORKER_CLASS_PARALLEL, p),
                        ![p].success = FALSE, ![p].result = "none",
                        ![p].status = "none", ![p].pid = 0]
    /\ bgw_pc' = [bgw_pc EXCEPT ![p] = "reg_scan"]
    /\ UNCHANGED <<relmapVars, background_worker_data, store_buffer, background_worker_list,
                   pm, registered>>

\* the entry, up to LWLockAcquire(BackgroundWorkerLock, LW_EXCLUSIVE): the
\* call returns false outside the postmaster's children, and
\* SanityCheckBackgroundWorker(worker, ERROR) raises its complaint
RegisterDynamicBackgroundWorker(p, worker, IsUnderPostmaster) ==
    /\ bgw_pc[p] = "idle"
    /\ Registrations(max_background_workers) < MaxRegistrations
    /\ IF ~IsUnderPostmaster
       THEN /\ bgw_frame' = [bgw_frame EXCEPT ![p].result = "false", ![p].success = FALSE,
                                              ![p].status = "none", ![p].pid = 0]
            /\ UNCHANGED <<bgw_pc, BackgroundWorkerLock>>
       ELSE IF ~SanityCheckBackgroundWorker(worker)
       THEN /\ bgw_frame' = [bgw_frame EXCEPT
                                ![p].result = "ERRCODE_INVALID_PARAMETER_VALUE",
                                ![p].success = FALSE,
                                ![p].status = "none", ![p].pid = 0]
            /\ UNCHANGED <<bgw_pc, BackgroundWorkerLock>>
       ELSE /\ BgwLockFree
            /\ BackgroundWorkerLock' = [BackgroundWorkerLock EXCEPT !.excl = p]
            /\ bgw_frame' = [bgw_frame EXCEPT
                                ![p].worker = Worker(worker.BGWORKER_CLASS_PARALLEL, p),
                                ![p].success = FALSE, ![p].result = "none",
                                ![p].status = "none", ![p].pid = 0]
            /\ bgw_pc' = [bgw_pc EXCEPT ![p] = "reg_scan"]
    /\ UNCHANGED <<relmapVars, background_worker_data, store_buffer, background_worker_list,
                   pm, registered>>

\* the stores of a registration that puts the registrant's thread id, not
\* the pid given, in slot->pid
SlotStores_NotifyPid(p, i, w, pid) ==
    <<Store(i, "worker", w),
      Store(i, "pid", w.bgw_notify_pid),
      Store(i, "generation", Read(p, i, "generation") + 1),
      Store(i, "terminate", FALSE)>>
    \o (IF w.parallel
        THEN <<Store(0, "parallel_register_count",
                     Incr32(Read(p, 0, "parallel_register_count")))>>
        ELSE <<>>)

\* the stores of a registration that leaves slot->generation as it was
SlotStores_SameGeneration(p, i, w, pid) ==
    <<Store(i, "worker", w),
      Store(i, "pid", pid),
      Store(i, "generation", Read(p, i, "generation")),
      Store(i, "terminate", FALSE)>>
    \o (IF w.parallel
        THEN <<Store(0, "parallel_register_count",
                     Incr32(Read(p, 0, "parallel_register_count")))>>
        ELSE <<>>)

\* the stores that fill slot i for worker w, in program order
SlotStores(p, i, w, pid) ==
    <<Store(i, "worker", w),
      Store(i, "pid", pid),
      Store(i, "generation", Read(p, i, "generation") + 1),
      Store(i, "terminate", FALSE)>>
    \o (IF w.parallel
        THEN <<Store(0, "parallel_register_count",
                     Incr32(Read(p, 0, "parallel_register_count")))>>
        ELSE <<>>)

\* the parallel-worker limit, and the stores into the first slot whether
\* it is in use or not
RegisterScan_AnySlot(p) ==
    /\ bgw_pc[p] = "reg_scan"
    /\ LET w == bgw_frame[p].worker
           free == Slots
           full == w.parallel /\ InFlight(Read(p, 0, "parallel_register_count"),
                                           Read(p, 0, "parallel_terminate_count"))
                                  >= max_parallel_workers
       IN IF full
          THEN /\ bgw_pc' = [bgw_pc EXCEPT ![p] = "reg_release"]
               /\ UNCHANGED <<store_buffer, bgw_frame, registered>>
          ELSE LET i == CHOOSE i \in free : \A j \in free : i <= j
               IN /\ store_buffer' = [store_buffer EXCEPT ![p] =
                                        @ \o SlotStores(p, i, w, InvalidPid)]
                  /\ bgw_frame' = [bgw_frame EXCEPT
                                     ![p].slotno = i,
                                     ![p].generation = Read(p, i, "generation") + 1]
                  /\ registered' = [registered EXCEPT ![i] =
                                      [worker |-> w,
                                       generation |-> Read(p, i, "generation") + 1,
                                       terminated |-> FALSE, examined |-> FALSE]]
                  /\ bgw_pc' = [bgw_pc EXCEPT ![p] = "reg_publish"]
    /\ UNCHANGED <<relmapVars, background_worker_data, background_worker_list, pm,
                   BackgroundWorkerLock>>

\* the search for a slot not in use and the stores into it, with no test
\* of the parallel-worker limit
RegisterScan_NoCeiling(p) ==
    /\ bgw_pc[p] = "reg_scan"
    /\ LET w == bgw_frame[p].worker
           free == {i \in Slots : ~Read(p, i, "in_use")}
       IN IF free = {}
          THEN /\ bgw_pc' = [bgw_pc EXCEPT ![p] = "reg_release"]
               /\ UNCHANGED <<store_buffer, bgw_frame, registered>>
          ELSE LET i == CHOOSE i \in free : \A j \in free : i <= j
               IN /\ store_buffer' = [store_buffer EXCEPT ![p] =
                                        @ \o SlotStores(p, i, w, InvalidPid)]
                  /\ bgw_frame' = [bgw_frame EXCEPT
                                     ![p].slotno = i,
                                     ![p].generation = Read(p, i, "generation") + 1]
                  /\ registered' = [registered EXCEPT ![i] =
                                      [worker |-> w,
                                       generation |-> Read(p, i, "generation") + 1,
                                       terminated |-> FALSE, examined |-> FALSE]]
                  /\ bgw_pc' = [bgw_pc EXCEPT ![p] = "reg_publish"]
    /\ UNCHANGED <<relmapVars, background_worker_data, background_worker_list, pm,
                   BackgroundWorkerLock>>

\* the parallel-worker limit, the search for a slot not in use, and the
\* stores into it up to pg_write_barrier
RegisterScan(p) ==
    /\ bgw_pc[p] = "reg_scan"
    /\ LET w == bgw_frame[p].worker
           free == {i \in Slots : ~Read(p, i, "in_use")}
           full == w.parallel /\ InFlight(Read(p, 0, "parallel_register_count"),
                                           Read(p, 0, "parallel_terminate_count"))
                                  >= max_parallel_workers
       IN IF full \/ free = {}
          THEN /\ bgw_pc' = [bgw_pc EXCEPT ![p] = "reg_release"]
               /\ UNCHANGED <<store_buffer, bgw_frame, registered>>
          ELSE LET i == CHOOSE i \in free : \A j \in free : i <= j
               IN /\ store_buffer' = [store_buffer EXCEPT ![p] =
                                        @ \o SlotStores(p, i, w, InvalidPid)]
                  /\ bgw_frame' = [bgw_frame EXCEPT
                                     ![p].slotno = i,
                                     ![p].generation = Read(p, i, "generation") + 1]
                  /\ registered' = [registered EXCEPT ![i] =
                                      [worker |-> w,
                                       generation |-> Read(p, i, "generation") + 1,
                                       terminated |-> FALSE, examined |-> FALSE]]
                  /\ bgw_pc' = [bgw_pc EXCEPT ![p] = "reg_publish"]
    /\ UNCHANGED <<relmapVars, background_worker_data, background_worker_list, pm,
                   BackgroundWorkerLock>>

\* slot->in_use = true with no barrier before it
RegisterPublish_NoBarrier(p) ==
    /\ bgw_pc[p] = "reg_publish"
    /\ store_buffer' = [store_buffer EXCEPT ![p] =
                          Append(@, Store(bgw_frame[p].slotno, "in_use", TRUE))]
    /\ bgw_frame' = [bgw_frame EXCEPT ![p].success = TRUE]
    /\ bgw_pc' = [bgw_pc EXCEPT ![p] = "reg_release"]
    /\ UNCHANGED <<relmapVars, background_worker_data, background_worker_list, pm,
                   BackgroundWorkerLock, registered>>

\* pg_write_barrier(); slot->in_use = true
RegisterPublish(p) ==
    /\ bgw_pc[p] = "reg_publish"
    /\ store_buffer' = [store_buffer EXCEPT ![p] =
                          Append(WithBarrier(@), Store(bgw_frame[p].slotno, "in_use", TRUE))]
    /\ bgw_frame' = [bgw_frame EXCEPT ![p].success = TRUE]
    /\ bgw_pc' = [bgw_pc EXCEPT ![p] = "reg_release"]
    /\ UNCHANGED <<relmapVars, background_worker_data, background_worker_list, pm,
                   BackgroundWorkerLock, registered>>

\* LWLockRelease and the handle, with SendPostmasterSignal in every case
RegisterReturn_AlwaysSignal(p) ==
    /\ bgw_pc[p] = "reg_release"
    /\ store_buffer[p] = <<>>
    /\ BackgroundWorkerLock' = BgwLockRelease(p)
    /\ pm' = SendPostmasterSignal(TRUE)
    /\ bgw_frame' = [bgw_frame EXCEPT
                       ![p].handle = IF bgw_frame[p].success
                                     THEN [slot |-> bgw_frame[p].slotno,
                                           generation |-> bgw_frame[p].generation]
                                     ELSE @,
                       ![p].result = IF bgw_frame[p].success THEN "true" ELSE "false",
                       ![p].slotno = 0, ![p].generation = 0, ![p].worker = NoWorker]
    /\ bgw_pc' = [bgw_pc EXCEPT ![p] = "idle"]
    /\ UNCHANGED <<relmapVars, background_worker_data, store_buffer, background_worker_list,
                   registered>>

\* LWLockRelease, SendPostmasterSignal and the handle, on success
RegisterReturn(p) ==
    /\ bgw_pc[p] = "reg_release"
    /\ store_buffer[p] = <<>>
    /\ BackgroundWorkerLock' = BgwLockRelease(p)
    /\ pm' = SendPostmasterSignal(bgw_frame[p].success)
    /\ bgw_frame' = [bgw_frame EXCEPT
                       ![p].handle = IF bgw_frame[p].success
                                     THEN [slot |-> bgw_frame[p].slotno,
                                           generation |-> bgw_frame[p].generation]
                                     ELSE @,
                       ![p].result = IF bgw_frame[p].success THEN "true" ELSE "false",
                       ![p].slotno = 0, ![p].generation = 0, ![p].worker = NoWorker]
    /\ bgw_pc' = [bgw_pc EXCEPT ![p] = "idle"]
    /\ UNCHANGED <<relmapVars, background_worker_data, store_buffer, background_worker_list,
                   registered>>

\* --------------------------------------------------- GetBackgroundWorkerPid
\* the test of in_use alone, whatever the generation of the handle
GetBackgroundWorkerPid_AnyGeneration(p) ==
    /\ bgw_pc[p] \in {"idle", "wait_loop"}
    /\ bgw_frame[p].handle.slot # 0
    /\ BackgroundWorkerLock.excl = 0
    /\ BackgroundWorkerLock' = [BackgroundWorkerLock EXCEPT !.shared = @ \cup {p}]
    /\ bgw_frame' = [bgw_frame EXCEPT ![p].stale =
            ~Read(p, bgw_frame[p].handle.slot, "in_use")]
    /\ bgw_pc' = [bgw_pc EXCEPT ![p] = "get_pid"]
    /\ UNCHANGED <<relmapVars, background_worker_data, store_buffer, background_worker_list,
                   pm, registered>>

\* LWLockAcquire(LW_SHARED) and the test of the generation and of in_use
GetBackgroundWorkerPid(p) ==
    /\ bgw_pc[p] \in {"idle", "wait_loop"}
    /\ bgw_frame[p].handle.slot # 0
    /\ BackgroundWorkerLock.excl = 0
    /\ BackgroundWorkerLock' = [BackgroundWorkerLock EXCEPT !.shared = @ \cup {p}]
    /\ bgw_frame' = [bgw_frame EXCEPT
            ![p].wait = IF bgw_pc[p] = "idle" THEN "none" ELSE @,
            ![p].stale =
               \/ bgw_frame[p].handle.generation
                     # Read(p, bgw_frame[p].handle.slot, "generation")
               \/ ~Read(p, bgw_frame[p].handle.slot, "in_use")]
    /\ bgw_pc' = [bgw_pc EXCEPT ![p] = "get_pid"]
    /\ UNCHANGED <<relmapVars, background_worker_data, store_buffer, background_worker_list,
                   pm, registered>>

BgwHandleStatus(pid) ==
    IF pid = 0 THEN "BGWH_STOPPED"
    ELSE IF pid = InvalidPid THEN "BGWH_NOT_YET_STARTED"
    ELSE "BGWH_STARTED"

\* the load of slot->pid, LWLockRelease, and the status returned
GetBackgroundWorkerPidReturn(p) ==
    /\ bgw_pc[p] = "get_pid"
    /\ LET pid == IF bgw_frame[p].stale THEN 0
                  ELSE Read(p, bgw_frame[p].handle.slot, "pid")
       IN bgw_frame' = [bgw_frame EXCEPT
              ![p].status = BgwHandleStatus(pid),
              ![p].pid = IF BgwHandleStatus(pid) = "BGWH_STARTED" THEN pid ELSE 0,
              ![p].stale = FALSE]
    /\ BackgroundWorkerLock' = BgwLockRelease(p)
    /\ bgw_pc' = [bgw_pc EXCEPT ![p] =
                    IF bgw_frame[p].wait = "none" THEN "idle" ELSE "wait_check"]
    /\ UNCHANGED <<relmapVars, background_worker_data, store_buffer, background_worker_list,
                   pm, registered>>

\* ----- WaitForBackgroundWorkerStartup, WaitForBackgroundWorkerShutdown
\* the entry of either function, up to the call of GetBackgroundWorkerPid
WaitForBackgroundWorker(p, which) ==
    /\ bgw_pc[p] = "idle"
    /\ bgw_frame[p].handle.slot # 0
    /\ bgw_frame' = [bgw_frame EXCEPT ![p].wait = which, ![p].status = "none",
                                      ![p].pid = 0, ![p].latch = FALSE]
    /\ bgw_pc' = [bgw_pc EXCEPT ![p] = "wait_loop"]
    /\ UNCHANGED <<relmapVars, background_worker_data, store_buffer, background_worker_list,
                   pm, BackgroundWorkerLock, registered>>

\* the status that ends the loop of the function
WaitIsOver(which, status) ==
    IF which = "startup" THEN status # "BGWH_NOT_YET_STARTED"
    ELSE status = "BGWH_STOPPED"

\* a loop that ends on any status
WaitCheck_NoLoop(p) ==
    /\ bgw_pc[p] = "wait_check"
    /\ bgw_pc' = [bgw_pc EXCEPT ![p] = "idle"]
    /\ bgw_frame' = [bgw_frame EXCEPT ![p].latch = FALSE]
    /\ UNCHANGED <<relmapVars, background_worker_data, store_buffer, background_worker_list,
                   pm, BackgroundWorkerLock, registered>>

\* the test of the status GetBackgroundWorkerPid gave: break, or WaitLatch
WaitCheck(p) ==
    /\ bgw_pc[p] = "wait_check"
    /\ IF WaitIsOver(bgw_frame[p].wait, bgw_frame[p].status)
       THEN /\ bgw_pc' = [bgw_pc EXCEPT ![p] = "idle"]
            /\ bgw_frame' = [bgw_frame EXCEPT ![p].latch = FALSE]
       ELSE /\ bgw_pc' = [bgw_pc EXCEPT ![p] = "wait_latch"]
            /\ UNCHANGED bgw_frame
    /\ UNCHANGED <<relmapVars, background_worker_data, store_buffer, background_worker_list,
                   pm, BackgroundWorkerLock, registered>>

\* the latch of a backend may be set at any time, by anyone
SpuriousWakeup(p) ==
    /\ bgw_pc[p] = "wait_latch"
    /\ ~bgw_frame[p].latch
    /\ bgw_frame' = SetLatch(bgw_frame, p)
    /\ UNCHANGED <<relmapVars, background_worker_data, store_buffer, background_worker_list,
                   pm, BackgroundWorkerLock, bgw_pc, registered>>

\* WaitLatch(procLatch, WL_LATCH_SET | WL_POSTMASTER_DEATH) returns, once the
\* latch is set or the postmaster is dead: with WL_POSTMASTER_DEATH, which it
\* reports only of a dead postmaster, the function gives BGWH_POSTMASTER_DIED
WaitLatch(p) ==
    /\ bgw_pc[p] = "wait_latch"
    /\ bgw_frame[p].latch \/ ~pm.alive
    /\ \E WL_POSTMASTER_DEATH \in {~pm.alive, ~bgw_frame[p].latch} :
          IF WL_POSTMASTER_DEATH
          THEN /\ bgw_frame' = [bgw_frame EXCEPT ![p].status = "BGWH_POSTMASTER_DIED",
                                                 ![p].pid = 0, ![p].latch = FALSE]
               /\ bgw_pc' = [bgw_pc EXCEPT ![p] = "idle"]
          ELSE /\ bgw_pc' = [bgw_pc EXCEPT ![p] = "wait_reset"]
               /\ UNCHANGED bgw_frame
    /\ UNCHANGED <<relmapVars, background_worker_data, store_buffer, background_worker_list,
                   pm, BackgroundWorkerLock, registered>>

\* ResetLatch(procLatch) and the next round of the loop
ResetLatch(p) ==
    /\ bgw_pc[p] = "wait_reset"
    /\ bgw_frame' = [bgw_frame EXCEPT ![p].latch = FALSE]
    /\ bgw_pc' = [bgw_pc EXCEPT ![p] = "wait_loop"]
    /\ UNCHANGED <<relmapVars, background_worker_data, store_buffer, background_worker_list,
                   pm, BackgroundWorkerLock, registered>>

\* CHECK_FOR_INTERRUPTS at the head of a round raises an error
WaitInterrupted(p) ==
    /\ bgw_pc[p] = "wait_loop"
    /\ bgw_frame' = [bgw_frame EXCEPT ![p].wait = "none", ![p].status = "none",
                                      ![p].latch = FALSE]
    /\ bgw_pc' = [bgw_pc EXCEPT ![p] = "idle"]
    /\ UNCHANGED <<relmapVars, background_worker_data, store_buffer, background_worker_list,
                   pm, BackgroundWorkerLock, registered>>

\* the postmaster dies; the stores it had issued still reach memory
PostmasterDies ==
    /\ pm.alive
    /\ pm' = [pm EXCEPT !.alive = FALSE]
    /\ UNCHANGED <<relmapVars, background_worker_data, store_buffer, background_worker_list,
                   BackgroundWorkerLock, bgw_pc, bgw_frame, registered>>

\* ------------------------------------------------ TerminateBackgroundWorker
\* under the exclusive lock: set terminate, whatever the slot's generation
TerminateBackgroundWorker_AnyGeneration(p) ==
    /\ bgw_pc[p] = "idle"
    /\ bgw_frame[p].handle.slot # 0
    /\ BgwLockFree
    /\ BackgroundWorkerLock' = [BackgroundWorkerLock EXCEPT !.excl = p]
    /\ LET h == bgw_frame[p].handle
       IN /\ store_buffer' = [store_buffer EXCEPT ![p] =
                                Append(@, Store(h.slot, "terminate", TRUE))]
          /\ bgw_frame' = [bgw_frame EXCEPT ![p].signal_postmaster = TRUE,
                                            ![p].status = "none", ![p].pid = 0]
          /\ registered' = [registered EXCEPT ![h.slot].terminated = TRUE]
    /\ bgw_pc' = [bgw_pc EXCEPT ![p] = "term_release"]
    /\ UNCHANGED <<relmapVars, background_worker_data, background_worker_list, pm>>

\* under the exclusive lock: set terminate unless the slot has been reused
TerminateBackgroundWorker(p) ==
    /\ bgw_pc[p] = "idle"
    /\ bgw_frame[p].handle.slot # 0
    /\ BgwLockFree
    /\ BackgroundWorkerLock' = [BackgroundWorkerLock EXCEPT !.excl = p]
    /\ LET h == bgw_frame[p].handle
       IN IF h.generation = Read(p, h.slot, "generation")
          THEN /\ store_buffer' = [store_buffer EXCEPT ![p] =
                                     Append(@, Store(h.slot, "terminate", TRUE))]
               /\ bgw_frame' = [bgw_frame EXCEPT ![p].signal_postmaster = TRUE,
                                                 ![p].status = "none", ![p].pid = 0]
               /\ registered' = [registered EXCEPT ![h.slot].terminated = TRUE]
          ELSE /\ bgw_frame' = [bgw_frame EXCEPT ![p].status = "none", ![p].pid = 0]
               /\ UNCHANGED <<store_buffer, registered>>
    /\ bgw_pc' = [bgw_pc EXCEPT ![p] = "term_release"]
    /\ UNCHANGED <<relmapVars, background_worker_data, background_worker_list, pm>>

\* LWLockRelease and SendPostmasterSignal
TerminateReturn(p) ==
    /\ bgw_pc[p] = "term_release"
    /\ store_buffer[p] = <<>>
    /\ BackgroundWorkerLock' = BgwLockRelease(p)
    /\ pm' = SendPostmasterSignal(bgw_frame[p].signal_postmaster)
    /\ bgw_frame' = [bgw_frame EXCEPT ![p].signal_postmaster = FALSE]
    /\ bgw_pc' = [bgw_pc EXCEPT ![p] = "idle"]
    /\ UNCHANGED <<relmapVars, background_worker_data, store_buffer, background_worker_list,
                   registered>>

\* ---------------------------------------------- BackgroundWorkerStateChange
\* the postmaster takes the signal and starts a pass over the slots
BackgroundWorkerStateChange ==
    /\ pm.alive
    /\ pm.pc = "idle" /\ pm.signal
    /\ pm' = [pm EXCEPT !.pc = "scan", !.slotno = 1, !.signal = FALSE]
    /\ UNCHANGED <<relmapVars, background_worker_data, store_buffer, background_worker_list,
                   BackgroundWorkerLock, bgw_pc, bgw_frame, registered>>

\* ++slotno, or the end of the loop
NextSlot ==
    IF pm.slotno = max_background_workers
    THEN [pm EXCEPT !.pc = "idle", !.slotno = 0]
    ELSE [pm EXCEPT !.pc = "scan", !.slotno = @ + 1]

\* a pass that waits until no backend holds BackgroundWorkerLock
StateChangeInUse_WaitsForLock ==
    /\ pm.alive
    /\ pm.pc = "scan"
    /\ BgwLockFree
    /\ pm' = IF Read(Postmaster, pm.slotno, "in_use")
             THEN [pm EXCEPT !.pc = "examine"] ELSE NextSlot
    /\ UNCHANGED <<relmapVars, background_worker_data, store_buffer, background_worker_list,
                   BackgroundWorkerLock, bgw_pc, bgw_frame, registered>>

\* if (!slot->in_use) continue; pg_read_barrier();
StateChangeInUse ==
    /\ pm.alive
    /\ pm.pc = "scan"
    /\ pm' = IF Read(Postmaster, pm.slotno, "in_use")
             THEN [pm EXCEPT !.pc = "examine"] ELSE NextSlot
    /\ UNCHANGED <<relmapVars, background_worker_data, store_buffer, background_worker_list,
                   BackgroundWorkerLock, bgw_pc, bgw_frame, registered>>

\* an increment of parallel_terminate_count for a worker of any class
ForgetStores_AnyClass(w) ==
    <<Store(0, "parallel_terminate_count",
            Incr32(Read(Postmaster, 0, "parallel_terminate_count")))>>

\* the stores of ForgetBackgroundWorker
ForgetStores(w) ==
    (IF w.parallel
     THEN <<Store(0, "parallel_terminate_count",
                  Incr32(Read(Postmaster, 0, "parallel_terminate_count")))>>
     ELSE <<>>)

\* a loop body that reacts to the terminate flag of a known worker in every
\* pass
StateChangeExamine_EveryPass ==
    /\ pm.alive
    /\ pm.pc = "examine"
    /\ LET i == pm.slotno
           rw == background_worker_list[i]
           terminate == Read(Postmaster, i, "terminate")
           worker == Read(Postmaster, i, "worker")
       IN /\ IF rw.known
             THEN IF terminate
                  THEN /\ background_worker_list' =
                              [background_worker_list EXCEPT
                                  ![i].rw_terminate = TRUE,
                                  ![i].sigterm = IF rw.rw_pid # 0 THEN @ + 1 ELSE @]
                       /\ store_buffer' =
                              IF rw.rw_pid # 0 THEN store_buffer
                              ELSE [store_buffer EXCEPT ![Postmaster] =
                                      Notified(Append(@, Store(i, "pid", rw.rw_pid)),
                                               rw.rw_worker.bgw_notify_pid)]
                  ELSE UNCHANGED <<background_worker_list, store_buffer>>
             ELSE IF terminate
                  THEN /\ store_buffer' = [store_buffer EXCEPT ![Postmaster] =
                              Notified(WithBarrier(@ \o ForgetStores(worker))
                                       \o <<Store(i, "pid", 0), Store(i, "in_use", FALSE)>>,
                                       worker.bgw_notify_pid)]
                       /\ UNCHANGED background_worker_list
                  ELSE /\ background_worker_list' = [background_worker_list EXCEPT ![i] =
                              [known |-> TRUE, rw_worker |-> worker, rw_pid |-> 0,
                               rw_terminate |-> FALSE, sigterm |-> 0]]
                       /\ UNCHANGED store_buffer
          /\ registered' = [registered EXCEPT ![i].examined = TRUE]
    /\ pm' = NextSlot
    /\ UNCHANGED <<relmapVars, background_worker_data, BackgroundWorkerLock, bgw_pc,
                   bgw_frame>>

\* a loop body that records an unknown worker whether or not it is to
\* terminate
StateChangeExamine_TracksTerminated ==
    /\ pm.alive
    /\ pm.pc = "examine"
    /\ LET i == pm.slotno
           rw == background_worker_list[i]
           terminate == Read(Postmaster, i, "terminate")
           worker == Read(Postmaster, i, "worker")
       IN /\ IF rw.known
             THEN IF terminate /\ ~rw.rw_terminate
                  THEN /\ background_worker_list' =
                              [background_worker_list EXCEPT
                                  ![i].rw_terminate = TRUE,
                                  ![i].sigterm = IF rw.rw_pid # 0 THEN @ + 1 ELSE @]
                       /\ store_buffer' =
                              IF rw.rw_pid # 0 THEN store_buffer
                              ELSE [store_buffer EXCEPT ![Postmaster] =
                                      Notified(Append(@, Store(i, "pid", rw.rw_pid)),
                                               rw.rw_worker.bgw_notify_pid)]
                  ELSE UNCHANGED <<background_worker_list, store_buffer>>
             ELSE /\ background_worker_list' = [background_worker_list EXCEPT ![i] =
                         [known |-> TRUE, rw_worker |-> worker, rw_pid |-> 0,
                          rw_terminate |-> FALSE, sigterm |-> 0]]
                  /\ UNCHANGED store_buffer
          /\ registered' = [registered EXCEPT ![i].examined = TRUE]
    /\ pm' = NextSlot
    /\ UNCHANGED <<relmapVars, background_worker_data, BackgroundWorkerLock, bgw_pc,
                   bgw_frame>>

\* the rest of the loop body for a slot in use: a known worker whose
\* terminate flag went up is signalled, or reported dead if it never
\* started; an unknown one is freed if it is to terminate, else registered
StateChangeExamine ==
    /\ pm.alive
    /\ pm.pc = "examine"
    /\ LET i == pm.slotno
           rw == background_worker_list[i]
           terminate == Read(Postmaster, i, "terminate")
           worker == Read(Postmaster, i, "worker")
       IN /\ IF rw.known
             THEN IF terminate /\ ~rw.rw_terminate
                  THEN /\ background_worker_list' =
                              [background_worker_list EXCEPT
                                  ![i].rw_terminate = TRUE,
                                  ![i].sigterm = IF rw.rw_pid # 0 THEN @ + 1 ELSE @]
                       /\ store_buffer' =
                              IF rw.rw_pid # 0 THEN store_buffer
                              ELSE [store_buffer EXCEPT ![Postmaster] =
                                      Notified(Append(@, Store(i, "pid", rw.rw_pid)),
                                               rw.rw_worker.bgw_notify_pid)]
                  ELSE UNCHANGED <<background_worker_list, store_buffer>>
             ELSE IF terminate
                  THEN /\ store_buffer' = [store_buffer EXCEPT ![Postmaster] =
                              Notified(WithBarrier(@ \o ForgetStores(worker))
                                       \o <<Store(i, "pid", 0), Store(i, "in_use", FALSE)>>,
                                       worker.bgw_notify_pid)]
                       /\ UNCHANGED background_worker_list
                  ELSE /\ background_worker_list' = [background_worker_list EXCEPT ![i] =
                              [known |-> TRUE, rw_worker |-> worker, rw_pid |-> 0,
                               rw_terminate |-> FALSE, sigterm |-> 0]]
                       /\ UNCHANGED store_buffer
          /\ registered' = [registered EXCEPT ![i].examined = TRUE]
    /\ pm' = NextSlot
    /\ UNCHANGED <<relmapVars, background_worker_data, BackgroundWorkerLock, bgw_pc,
                   bgw_frame>>

\* the postmaster starts a registered worker and ReportBackgroundWorkerPID
\* stores its thread id in the slot; creating the thread is a system call
\* that completes the postmaster's earlier stores
StartWorker(i) ==
    /\ pm.alive
    /\ pm.pc = "idle"
    /\ background_worker_list[i].known
    /\ background_worker_list[i].rw_pid = 0 /\ ~background_worker_list[i].rw_terminate
    /\ store_buffer[Postmaster] = <<>>
    /\ \E pid \in ThreadIds :
          /\ background_worker_list' = [background_worker_list EXCEPT ![i].rw_pid = pid]
          /\ store_buffer' = [store_buffer EXCEPT ![Postmaster] =
                                 Notified(Append(@, Store(i, "pid", pid)),
                                          background_worker_list[i].rw_worker.bgw_notify_pid)]
    /\ UNCHANGED <<relmapVars, background_worker_data, pm, BackgroundWorkerLock, bgw_pc,
                   bgw_frame, registered>>

\* the worker has exited: ReportBackgroundWorkerExit stores pid 0 and, the
\* worker being BGW_NEVER_RESTART, ForgetBackgroundWorker frees the slot;
\* reaping the thread is a system call that completes the earlier stores
WorkerExit(i) ==
    /\ pm.alive
    /\ pm.pc = "idle"
    /\ background_worker_list[i].known
    /\ background_worker_list[i].rw_pid # 0
    /\ store_buffer[Postmaster] = <<>>
    /\ store_buffer' = [store_buffer EXCEPT ![Postmaster] =
            Notified((Append(@, Store(i, "pid", 0))
                      \o ForgetStores(background_worker_list[i].rw_worker))
                     \o <<Store(i, "in_use", FALSE)>>,
                     background_worker_list[i].rw_worker.bgw_notify_pid)]
    /\ background_worker_list' = [background_worker_list EXCEPT ![i] = NoRegisteredBgWorker]
    /\ UNCHANGED <<relmapVars, background_worker_data, pm, BackgroundWorkerLock, bgw_pc,
                   bgw_frame, registered>>

\* a worker told to terminate before it was started is forgotten
ForgetTerminated(i) ==
    /\ pm.alive
    /\ pm.pc = "idle"
    /\ background_worker_list[i].known
    /\ background_worker_list[i].rw_pid = 0 /\ background_worker_list[i].rw_terminate
    /\ store_buffer' = [store_buffer EXCEPT ![Postmaster] =
            (@ \o ForgetStores(background_worker_list[i].rw_worker))
            \o <<Store(i, "in_use", FALSE)>>]
    /\ background_worker_list' = [background_worker_list EXCEPT ![i] = NoRegisteredBgWorker]
    /\ UNCHANGED <<relmapVars, background_worker_data, pm, BackgroundWorkerLock, bgw_pc,
                   bgw_frame, registered>>

\* idle backends and free slots, after count parallel workers have been
\* registered and have terminated
BgwInitAt(count) ==
    /\ background_worker_data =
          [slot |-> [i \in Slots |-> FreeSlot],
           parallel_register_count |-> count, parallel_terminate_count |-> count]
    /\ store_buffer = [a \in Agents |-> <<>>]
    /\ background_worker_list = [i \in Slots |-> NoRegisteredBgWorker]
    /\ pm = [pc |-> "idle", slotno |-> 0, signal |-> FALSE, alive |-> TRUE]
    /\ BackgroundWorkerLock = [excl |-> 0, shared |-> {}]
    /\ bgw_pc = [p \in Procs |-> "idle"]
    /\ bgw_frame = [p \in Procs |-> NoBgwFrame]
    /\ registered = [i \in Slots |->
                       [worker |-> NoWorker, generation |-> 0, terminated |-> FALSE,
                        examined |-> FALSE]]

\* BackgroundWorkerShmemInit with no static worker
BgwInit == BgwInitAt(0)

\* ------------------------------------------------------------ Init
\* the map files initdb left: relation 1 mapped to filenode 1 in each scope,
\* both copies alike and on stable storage
BaseMap == WithOverhead([ZeroMap EXCEPT !.num_mappings = 1,
                                        !.mappings = <<RelMapping(1, 1)>>])

BaseCopy == [data |-> FullFile(BaseMap), durable |-> FullFile(BaseMap)]

\* RelationMapInitialize in every session, no lock held, nothing logged
InitSessions ==
    /\ active_updates = [p \in Procs |-> [s \in BOOLEAN |-> ZeroMap]]
    /\ pending_updates = [p \in Procs |-> [s \in BOOLEAN |-> ZeroMap]]
    /\ pc = [p \in Procs |-> "idle"]
    /\ frame = [p \in Procs |-> NoFrame]
    /\ CritSectionCount = [p \in Procs |-> 0]
    /\ lock = [excl |-> 0, shared |-> {}]
    /\ wal = <<>>
    /\ sinval = [p \in Procs |-> {}]
    /\ preserved = {}
    /\ xact = [p \in Procs |-> [state |-> "none", nstage |-> 0, count |-> 0]]
    /\ hist = [p \in Procs |-> NoHist]

\* RelationMapInitialize: the maps are invalid until the phases load them
Starting ==
    /\ real_map = [p \in Procs |-> [s \in BOOLEAN |-> ZeroMap]]
    /\ phase = [p \in Procs |-> 0]

\* every session after RelationMapInitializePhase3
Started ==
    /\ real_map = [p \in Procs |-> [s \in BOOLEAN |-> file[s]["map"].data.img]]
    /\ phase = [p \in Procs |-> 2]

InitFiles == file = [s \in BOOLEAN |-> [map |-> BaseCopy, bak |-> BaseCopy]]

Settings(allow, upgrade) ==
    [allowSystemTableMods |-> allow, IsInplaceUpgrade |-> upgrade,
     data_sync_retry |-> FALSE, bootstrap |-> {}]

NoBudget == [faults |-> 0, damage |-> 0, resets |-> 0]

\* ------------------------------------------------------------ Spec
\* One session runs transactions that change the maps; nothing fails.
Init ==
    /\ InitSessions
    /\ InitFiles
    /\ Starting
    /\ \E allow \in BOOLEAN : env = Settings(allow, FALSE)
    /\ budget = NoBudget
    /\ BgwInit

\* the steps of load_relmap_file and write_relmap_file when no copy is
\* missing or damaged
LoadSteps(p) ==
    \/ LockShared(p)
    \/ LoadStat(p)
    \/ LoadRead(p)
    \/ LoadReturn(p)
    \/ Unlock(p)

WriteSteps(p) ==
    \/ PerformLock(p)
    \/ PerformMerge(p)
    \/ WriteOpen(p)
    \/ WriteXLogInsert(p)
    \/ WriteXLogFlush(p)
    \/ WriteData(p)
    \/ WriteFsync(p)
    \/ WriteClose(p)
    \/ WriteSinval(p)
    \/ WriteFinish(p)

XactSteps(p) ==
    \/ \E relationId \in Oids, fileNode \in Filenodes, shared \in BOOLEAN, immediate \in BOOLEAN :
          RelationMapUpdateMap(p, relationId, fileNode, shared, immediate, 1, FALSE)
    \/ \E relationId \in Oids : RelationMapRemoveMapping(p, relationId)
    \/ AtCCI_RelationMap(p)
    \/ \E isCommit \in BOOLEAN, isParallelWorker \in BOOLEAN :
          AtEOXact_RelationMap(p, isCommit, isParallelWorker)
    \/ AtEOXactNext(p)
    \/ AbortAfterError(p)

Next ==
    \/ RelationMapInitializePhase2(1)
    \/ RelationMapInitializePhase3(1)
    \/ LoadSteps(1)
    \/ WriteSteps(1)
    \/ XactSteps(1)

Spec == Init /\ [][Next]_vars

\* transactions that give the relation initdb mapped another filenode, at
\* once, and commit
CommitSteps(p) ==
    \/ \E fileNode \in Filenodes, shared \in BOOLEAN :
          RelationMapUpdateMap(p, 1, fileNode, shared, TRUE, 1, FALSE)
    \/ AtEOXact_RelationMap(p, TRUE, FALSE)
    \/ AtEOXactNext(p)

\* ------------------------------------------------------------ SpecIO
\* The same session, while system calls, XLogInsert, XLogFlush,
\* CacheInvalidateRelmap and RelationPreserveStorage can fail.
InitIO ==
    /\ InitSessions
    /\ InitFiles
    /\ Starting
    /\ \E retry \in BOOLEAN :
          env = [Settings(FALSE, FALSE) EXCEPT !.data_sync_retry = retry]
    /\ budget = [NoBudget EXCEPT !.faults = MaxFaults]
    /\ BgwInit

NextIO ==
    \/ RelationMapInitializePhase2(1)
    \/ RelationMapInitializePhase3(1)
    \/ LoadSteps(1)
    \/ WriteSteps(1)
    \/ CommitSteps(1)
    \/ AbortAfterError(1)

SpecIO == InitIO /\ [][NextIO]_vars

\* ------------------------------------------------------------ SpecConc
\* Two sessions.  Whoever changes a relation's mapping holds the exclusive
\* lock on that relation until commit, so the sessions change different
\* relations: session p changes relation p.  Each takes the invalidation
\* messages of the other when it is idle.  Both have been through
\* RelationMapInitializePhase3 and hold the maps initdb wrote; their
\* transactions change the shared map and commit.
InitConc ==
    /\ InitSessions
    /\ InitFiles
    /\ Started
    /\ \E allow \in BOOLEAN : env = Settings(allow, FALSE)
    /\ budget = NoBudget
    /\ BgwInit

ConcXactSteps(p) ==
    \/ \E fileNode \in Filenodes :
          RelationMapUpdateMap(p, p, fileNode, TRUE, TRUE, 1, FALSE)
    \/ AtEOXact_RelationMap(p, TRUE, FALSE)
    \/ AtEOXactNext(p)
    \/ AbortAfterError(p)
    \/ \E shared \in BOOLEAN : RelationMapInvalidate(p, shared)

NextConc ==
    \E p \in Procs :
        \/ LoadSteps(p)
        \/ WriteSteps(p)
        \/ ConcXactSteps(p)

SpecConc == InitConc /\ [][NextConc]_vars

\* ------------------------------------------------------------ SpecDamage
\* One session, while copies of the map files get damaged on the medium and
\* the session's invalidation queue is reset.  Nothing raises an ERROR here.
InitDamage ==
    /\ InitSessions
    /\ InitFiles
    /\ Starting
    /\ env = Settings(FALSE, FALSE)
    /\ budget = [NoBudget EXCEPT !.damage = MaxDamage, !.resets = MaxResets]
    /\ BgwInit

RecoverSteps(p) ==
    \/ LoadRelease(p)
    \/ LoadAcquire(p)
    \/ RecoverOpen(p)
    \/ RecoverWrite(p)
    \/ RecoverFsync(p)
    \/ RecoverClose(p)

NextDamage ==
    \/ RelationMapInitializePhase2(1)
    \/ RelationMapInitializePhase3(1)
    \/ LoadSteps(1)
    \/ RecoverSteps(1)
    \/ WriteSteps(1)
    \/ CommitSteps(1)
    \/ RelationMapInvalidateAll(1)
    \/ \E shared \in BOOLEAN, name \in {"map", "bak"} : DamageFile(shared, name)

SpecDamage == InitDamage /\ [][NextDamage]_vars

\* ------------------------------------------------------------ SpecLoad
\* One session starts and reloads while the copies of the map files hold any
\* of these images: the one initdb wrote, another sound one, one whose
\* checksum does not match, and two whose checksum matches a wrong magic or
\* an entry count beyond MAX_MAPPINGS (a file of another format).
Checksummed(map) == [map EXCEPT !.crc = ComputeCrc(map)]

FileImages ==
    {BaseMap,
     WithOverhead([ZeroMap EXCEPT !.num_mappings = 1, !.mappings = <<RelMapping(1, 2)>>]),
     [BaseMap EXCEPT !.mappings = <<RelMapping(1, 2)>>],
     Checksummed([BaseMap EXCEPT !.magic = RELMAPPER_FILEMAGIC + 1]),
     Checksummed([BaseMap EXCEPT !.num_mappings = MAX_MAPPINGS + 1])}

InitLoad ==
    /\ InitSessions
    /\ Starting
    /\ \E primary \in [BOOLEAN -> FileImages], backup \in [BOOLEAN -> FileImages] :
          file = [s \in BOOLEAN |->
                    [map |-> [data |-> FullFile(primary[s]), durable |-> FullFile(primary[s])],
                     bak |-> [data |-> FullFile(backup[s]), durable |-> FullFile(backup[s])]]]
    /\ env = Settings(FALSE, FALSE)
    /\ budget = [NoBudget EXCEPT !.resets = MaxResets]
    /\ BgwInit

NextLoad ==
    \/ RelationMapInitializePhase2(1)
    \/ RelationMapInitializePhase3(1)
    \/ LoadSteps(1)
    \/ RecoverSteps(1)
    \/ RelationMapInvalidateAll(1)

SpecLoad == InitLoad /\ [][NextLoad]_vars

\* ------------------------------------------------------------ SpecVis
\* Session 1 is up and commits transactions that stage a new filenode for
\* relation 1 in the local map (non-immediate, made active by
\* AtCCI_RelationMap).  Session 2
\* starts meanwhile: it takes the invalidation messages before, between and
\* after its RelationMapInitializePhase2 and Phase3, and its queue is reset.
InitVis ==
    /\ InitSessions
    /\ InitFiles
    /\ real_map = [p \in Procs |->
                     [s \in BOOLEAN |-> IF p = 1 THEN file[s]["map"].data.img ELSE ZeroMap]]
    /\ phase = [p \in Procs |-> IF p = 1 THEN 2 ELSE 0]
    /\ env = Settings(FALSE, FALSE)
    /\ budget = [NoBudget EXCEPT !.resets = MaxResets]
    /\ BgwInit

WriterSteps(p) ==
    \/ \E fileNode \in Filenodes :
          RelationMapUpdateMap(p, 1, fileNode, FALSE, FALSE, 1, FALSE)
    \/ AtCCI_RelationMap(p)
    \/ AtEOXact_RelationMap(p, TRUE, FALSE)
    \/ AtEOXactNext(p)
    \/ WriteSteps(p)

ReaderSteps(p) ==
    \/ RelationMapInitializePhase2(p)
    \/ RelationMapInitializePhase3(p)
    \/ \E shared \in BOOLEAN : RelationMapInvalidate(p, shared)
    \/ RelationMapInvalidateAll(p)

NextVis ==
    \/ WriterSteps(1)
    \/ ReaderSteps(2)
    \/ \E p \in Procs : LoadSteps(p)

SpecVis == InitVis /\ [][NextVis]_vars

\* ------------------------------------------------------------ SpecStage
\* One session in a transaction that has already staged updates: its active
\* and pending updates of the shared map hold relations 1..k, for any k up
\* to MAX_MAPPINGS.  It stages filenode 2 for relations of the shared map,
\* one more relation than a map can hold, at any transaction nest level and
\* in or out of parallel mode, and runs AtCCI_RelationMap.
StageOids == 1..(MAX_MAPPINGS + 1)
NestLevels == {1, 2}

Staged(k) == [ZeroMap EXCEPT !.num_mappings = k,
                             !.mappings = [i \in 1..k |-> RelMapping(i, 1)]]

InitStage ==
    /\ InitFiles
    /\ Started
    /\ \E k \in 0..MAX_MAPPINGS, j \in 0..MAX_MAPPINGS :
          /\ active_updates = [p \in Procs |-> [s \in BOOLEAN |->
                                  IF p = 1 /\ s THEN Staged(k) ELSE ZeroMap]]
          /\ pending_updates = [p \in Procs |-> [s \in BOOLEAN |->
                                   IF p = 1 /\ s THEN Staged(j) ELSE ZeroMap]]
    /\ pc = [p \in Procs |-> "idle"]
    /\ frame = [p \in Procs |-> NoFrame]
    /\ CritSectionCount = [p \in Procs |-> 0]
    /\ lock = [excl |-> 0, shared |-> {}]
    /\ wal = <<>>
    /\ sinval = [p \in Procs |-> {}]
    /\ preserved = {}
    /\ xact = [p \in Procs |-> IF p = 1
                                THEN [state |-> "inprogress", nstage |-> 0, count |-> 1]
                                ELSE [state |-> "none", nstage |-> 0, count |-> 0]]
    /\ hist = [p \in Procs |-> NoHist]
    /\ env = Settings(FALSE, FALSE)
    /\ budget = NoBudget
    /\ BgwInit

NextStage ==
    \/ \E relationId \in StageOids, immediate \in BOOLEAN,
          nestLevel \in NestLevels, inParallel \in BOOLEAN :
          RelationMapUpdateMap(1, relationId, 2, TRUE, immediate, nestLevel, inParallel)
    \/ AtCCI_RelationMap(1)
    \/ AbortAfterError(1)

SpecStage == InitStage /\ [][NextStage]_vars

\* ------------------------------------------------------------ SpecBgw
\* Two backends register and terminate workers (none of the parallel
\* class), and backend 1 asks for the status of its worker; the postmaster
\* takes their signals, starts the workers and reaps them.  The relation
\* mapper is at rest.
InitBgw ==
    /\ InitSessions
    /\ InitFiles
    /\ Started
    /\ env = Settings(FALSE, FALSE)
    /\ budget = NoBudget
    /\ BgwInit

BackendSteps(p) ==
    \/ RegisterDynamicBackgroundWorker(p, PlainWorker, TRUE)
    \/ RegisterScan(p)
    \/ RegisterPublish(p)
    \/ RegisterReturn(p)
    \/ TerminateBackgroundWorker(p)
    \/ TerminateReturn(p)

StatusSteps(p) ==
    \/ GetBackgroundWorkerPid(p)
    \/ GetBackgroundWorkerPidReturn(p)

PostmasterSteps ==
    \/ BackgroundWorkerStateChange
    \/ StateChangeInUse
    \/ StateChangeExamine
    \/ \E i \in Slots : StartWorker(i)
    \/ \E i \in Slots : WorkerExit(i)
    \/ \E i \in Slots : ForgetTerminated(i)

NextBgw ==
    \/ \E p \in Procs : BackendSteps(p)
    \/ StatusSteps(1)
    \/ PostmasterSteps
    \/ \E a \in Agents : Drain(a)

SpecBgw == InitBgw /\ [][NextBgw]_vars

\* the postmaster is a running thread: a step of its pass that can be taken
\* is taken; nothing is assumed of the backends, which may stop anywhere,
\* the lock held
SpecBgwFair ==
    SpecBgw /\ WF_vars(StateChangeInUse) /\ WF_vars(StateChangeExamine)

\* ---- SpecRace: every backend calls RegisterDynamicBackgroundWorker once,
\* ---- for fewer slots than backends; no slot is freed
RaceSteps(p) ==
    \/ /\ bgw_frame[p].result = "none"
       /\ RegisterDynamicBackgroundWorker(p, PlainWorker, TRUE)
    \/ RegisterScan(p)
    \/ RegisterPublish(p)
    \/ RegisterReturn(p)

NextRace ==
    \/ \E p \in Procs : RaceSteps(p)
    \/ \E p \in Procs : StatusSteps(p)
    \/ BackgroundWorkerStateChange
    \/ StateChangeInUse
    \/ StateChangeExamine
    \/ \E i \in Slots : StartWorker(i)
    \/ \E a \in Agents : Drain(a)

SpecRace == InitBgw /\ [][NextRace]_vars

\* ---- SpecParallel: registrations of every descriptor, parallel workers
\* ---- included, by backends inside and outside the postmaster's children;
\* ---- the parallel counters start one short of their wrap-around
InitParallel ==
    /\ InitSessions
    /\ InitFiles
    /\ Started
    /\ env = Settings(FALSE, FALSE)
    /\ budget = NoBudget
    /\ BgwInitAt(Uint32 - 1)

\* backend 1 passes any descriptor, under the postmaster or not; backend 2
\* is a child of the postmaster and registers parallel workers
CallsOf(p) ==
    IF p = 1 THEN Descriptors \X BOOLEAN ELSE {<<ParallelWorker, TRUE>>}

RegisterSteps(p) ==
    \/ \E call \in CallsOf(p) : RegisterDynamicBackgroundWorker(p, call[1], call[2])
    \/ RegisterScan(p)
    \/ RegisterPublish(p)
    \/ RegisterReturn(p)
    \/ TerminateBackgroundWorker(p)
    \/ TerminateReturn(p)

NextParallel ==
    \/ \E p \in Procs : RegisterSteps(p)
    \/ PostmasterSteps
    \/ \E a \in Agents : Drain(a)

SpecParallel == InitParallel /\ [][NextParallel]_vars

\* ---- SpecWait: backend 1 registers workers, terminates them and waits
\* ---- for their start or their end; backend 2 registers a worker once;
\* ---- the postmaster may die
WaitSteps(p) ==
    \/ \E which \in {"startup", "shutdown"} : WaitForBackgroundWorker(p, which)
    \/ GetBackgroundWorkerPid(p)
    \/ GetBackgroundWorkerPidReturn(p)
    \/ WaitCheck(p)
    \/ SpuriousWakeup(p)
    \/ WaitLatch(p)
    \/ ResetLatch(p)
    \/ WaitInterrupted(p)

NextWait ==
    \/ BackendSteps(1)
    \/ RaceSteps(2)
    \/ WaitSteps(1)
    \/ PostmasterSteps
    \/ PostmasterDies
    \/ \E a \in Agents : Drain(a)

SpecWait == InitBgw /\ [][NextWait]_vars

\* ---- SpecStop: backend 1 registers workers of either class, terminates
\* ---- them, asks for their status and waits for their start or their end;
\* ---- the parallel counters start one short of their wrap-around
StopSteps(p) ==
    \/ \E worker \in {PlainWorker, ParallelWorker} :
          RegisterDynamicBackgroundWorker(p, worker, TRUE)
    \/ RegisterScan(p)
    \/ RegisterPublish(p)
    \/ RegisterReturn(p)
    \/ TerminateBackgroundWorker(p)
    \/ TerminateReturn(p)

NextStop ==
    \/ StopSteps(1)
    \/ WaitSteps(1)
    \/ PostmasterSteps
    \/ PostmasterDies
    \/ \E a \in Agents : Drain(a)

SpecStop == InitParallel /\ [][NextStop]_vars

\* ---- SpecHalt: backend 1 registers workers and stops them with
\* ---- StopBackgroundWorker or its two halves; the postmaster may die
HaltSteps(p) ==
    \/ RegisterDynamicBackgroundWorker(p, PlainWorker, TRUE)
    \/ RegisterScan(p)
    \/ RegisterPublish(p)
    \/ RegisterReturn(p)
    \/ TerminateBackgroundWorker(p)
    \/ TerminateReturn(p)
    \/ WaitForBackgroundWorker(p, "shutdown")
    \/ WaitInterrupted(p)
    \/ SpuriousWakeup(p)

\* the steps of the loop of WaitForBackgroundWorkerShutdown that a running
\* backend goes on to take
WaitProgress(p) ==
    \/ (bgw_pc[p] = "wait_loop" /\ GetBackgroundWorkerPid(p))
    \/ GetBackgroundWorkerPidReturn(p)
    \/ WaitCheck(p)
    \/ WaitLatch(p)
    \/ ResetLatch(p)

\* the worker that was sent SIGTERM exits, and the postmaster reaps it
TerminatedExit(i) == background_worker_list[i].sigterm > 0 /\ WorkerExit(i)

NextHalt ==
    \/ HaltSteps(1)
    \/ WaitProgress(1)
    \/ PostmasterSteps
    \/ PostmasterDies
    \/ \E a \in Agents : Drain(a)

SpecHalt == InitBgw /\ [][NextHalt]_vars

\* WaitLatch reports the death of the postmaster
DeathDetected(p) == WaitLatch(p) /\ bgw_frame'[p].status = "BGWH_POSTMASTER_DIED"

\* the postmaster, while alive, runs its passes and reaps the workers it
\* has told to terminate; stores and signals arrive; backend 1, once in the
\* loop, keeps running unless interrupted; a dead postmaster is detected by
\* a backend that keeps calling WaitLatch, however often its latch is set
SpecHaltFair ==
    /\ SpecHalt
    /\ WF_vars(BackgroundWorkerStateChange)
    /\ WF_vars(StateChangeInUse)
    /\ WF_vars(StateChangeExamine)
    /\ \A i \in Slots : WF_vars(TerminatedExit(i))
    /\ \A a \in Agents : WF_vars(Drain(a))
    /\ WF_vars(WaitProgress(1))
    /\ SF_vars(DeathDetected(1))

\* ------------------------------------------------------------ SpecStart
\* Two sessions start at once on map files whose backup copies may be missing
\* (load_relmap_file: "the backup file does not exist") and whose primary
\* copies may fail their checksum.
BadCrcMap == [BaseMap EXCEPT !.mappings = <<RelMapping(1, 2)>>]

InitStart ==
    /\ InitSessions
    /\ Starting
    /\ \E primary \in [BOOLEAN -> {BaseMap, BadCrcMap}],
          backup \in [BOOLEAN -> {NoFile, FullFile(BaseMap)}] :
          file = [s \in BOOLEAN |->
                    [map |-> [data |-> FullFile(primary[s]), durable |-> FullFile(primary[s])],
                     bak |-> [data |-> backup[s], durable |-> backup[s]]]]
    /\ env = Settings(FALSE, FALSE)
    /\ budget = NoBudget
    /\ BgwInit

NextStart ==
    \E p \in Procs :
        \/ RelationMapInitializePhase2(p)
        \/ RelationMapInitializePhase3(p)
        \/ LoadSteps(p)
        \/ RecoverSteps(p)

SpecStart == InitStart /\ [][NextStart]_vars

\* ------------------------------------------------------------ SpecRecover
\* One session, either starting or started, reloads its maps from files one
\* of whose copies is missing or fails its checksum, while the system calls of
\* load_relmap_file and recover_relmap_file can fail.
InitRecover ==
    /\ InitSessions
    /\ \E primary \in [BOOLEAN -> {BaseMap, BadCrcMap}],
          backup \in [BOOLEAN -> {NoFile, FullFile(BaseMap)}] :
          file = [s \in BOOLEAN |->
                    [map |-> [data |-> FullFile(primary[s]), durable |-> FullFile(primary[s])],
                     bak |-> [data |-> backup[s], durable |-> backup[s]]]]
    /\ \E started \in BOOLEAN :
          /\ phase = [p \in Procs |-> IF started THEN 2 ELSE 0]
          /\ real_map = [p \in Procs |->
                           [s \in BOOLEAN |-> IF started THEN BaseMap ELSE ZeroMap]]
    /\ env = Settings(FALSE, FALSE)
    /\ budget = [NoBudget EXCEPT !.faults = MaxFaults, !.resets = MaxResets]
    /\ BgwInit

NextRecover ==
    \/ RelationMapInitializePhase2(1)
    \/ RelationMapInitializePhase3(1)
    \/ RelationMapInvalidateAll(1)
    \/ LoadSteps(1)
    \/ RecoverSteps(1)
    \/ AbortAfterError(1)

SpecRecover == InitRecover /\ [][NextRecover]_vars

\* ------------------------------------------------------------ SpecRedo
\* Session 1 commits transactions that change the filenode of relation 1 in
\* either map; then the server is restarted and the startup process, in the
\* place of session 2, replays the records session 1 wrote.
InitRedo ==
    /\ InitSessions
    /\ InitFiles
    /\ real_map = [p \in Procs |->
                     [s \in BOOLEAN |-> IF p = 1 THEN file[s]["map"].data.img ELSE ZeroMap]]
    /\ phase = [p \in Procs |-> IF p = 1 THEN 2 ELSE 0]
    /\ env = Settings(FALSE, FALSE)
    /\ budget = NoBudget
    /\ BgwInit

BaseBackup == [s \in BOOLEAN |-> [map |-> BaseCopy, bak |-> BaseCopy]]

NextRedo ==
    \/ /\ frame[2].caller # "redo"
       /\ \/ CommitSteps(1)
          \/ PerformLock(1)
          \/ PerformMerge(1)
          \/ LoadSteps(1)
    \/ \E found \in {file, BaseBackup} : StartupXLOG(2, found)
    \/ relmap_redo(2)
    \/ \E p \in Procs :
          \/ WriteOpen(p)
          \/ WriteXLogInsert(p)
          \/ WriteXLogFlush(p)
          \/ WriteData(p)
          \/ WriteFsync(p)
          \/ WriteClose(p)
          \/ WriteSinval(p)
          \/ WriteFinish(p)

SpecRedo == InitRedo /\ [][NextRedo]_vars

\* ------------------------------------------------------------ SpecCrash
\* what stable storage can hold of a copy when the server goes down: what
\* was there at the last fsync, what was written since, or part of it
AfterCrash(f) ==
    IF f.data = f.durable THEN {f.durable}
    ELSE {f.durable, f.data}
         \cup (IF f.data.st = "full" THEN TornWrites(f.durable, f.data.img)
               ELSE {})

\* the server goes down, at any point, and is started again: every session
\* starts from RelationMapInitialize, the log keeps what was flushed, and
\* the files hold what had reached stable storage
Crash ==
    /\ \E after \in [BOOLEAN \X {"map", "bak"} -> UNION {AfterCrash(file[s][n]) :
                                                       s \in BOOLEAN, n \in {"map", "bak"}}] :
          /\ \A s \in BOOLEAN, n \in {"map", "bak"} : after[s, n] \in AfterCrash(file[s][n])
          /\ file' = [s \in BOOLEAN |->
                        [n \in {"map", "bak"} |->
                            [data |-> after[s, n], durable |-> after[s, n]]]]
    /\ real_map' = [p \in Procs |-> [s \in BOOLEAN |-> ZeroMap]]
    /\ active_updates' = [p \in Procs |-> [s \in BOOLEAN |-> ZeroMap]]
    /\ pending_updates' = [p \in Procs |-> [s \in BOOLEAN |-> ZeroMap]]
    /\ pc' = [p \in Procs |-> "idle"]
    /\ frame' = [p \in Procs |-> NoFrame]
    /\ CritSectionCount' = [p \in Procs |-> 0]
    /\ lock' = [excl |-> 0, shared |-> {}]
    /\ wal' = SelectSeq(wal, LAMBDA r : r.flushed)
    /\ sinval' = [p \in Procs |-> {}]
    /\ xact' = [p \in Procs |-> [xact[p] EXCEPT !.state = "none", !.nstage = 0]]
    /\ hist' = [p \in Procs |-> NoHist]
    /\ phase' = [p \in Procs |-> 0]
    /\ UNCHANGED <<preserved, env, budget, bgwVars>>

\* One session commits changes of the maps and reloads them, on files of
\* which at most one copy per scope is missing or fails its checksum, while
\* the server can go down at any step.
InitCrash ==
    /\ InitSessions
    /\ Starting
    /\ \E primary \in [BOOLEAN -> {BaseMap, BadCrcMap}],
          backup \in [BOOLEAN -> {NoFile, FullFile(BaseMap)}] :
          /\ \A s \in BOOLEAN : primary[s] = BaseMap \/ backup[s] = FullFile(BaseMap)
          /\ file = [s \in BOOLEAN |->
                       [map |-> [data |-> FullFile(primary[s]),
                                 durable |-> FullFile(primary[s])],
                        bak |-> [data |-> backup[s], durable |-> backup[s]]]]
    /\ env = Settings(FALSE, FALSE)
    /\ budget = NoBudget
    /\ BgwInit

NextCrash ==
    \/ RelationMapInitializePhase2(1)
    \/ RelationMapInitializePhase3(1)
    \/ LoadSteps(1)
    \/ RecoverSteps(1)
    \/ WriteSteps(1)
    \/ CommitSteps(1)
    \/ Crash

SpecCrash == InitCrash /\ [][NextCrash]_vars

\* ------------------------------------------------------------ SpecCheckpoint
\* the call of CheckPointRelationMap; lsn is the end of the log at that time
CheckPointStart(p) ==
    /\ ~Panicked /\ pc[p] = "idle"
    /\ pc' = [pc EXCEPT ![p] = "ckpt_lock"]
    /\ frame' = [frame EXCEPT ![p] = [NoFrame EXCEPT !.caller = "checkpoint",
                                                     !.lsn = Len(wal)]]
    /\ UNCHANGED <<sessVars, CritSectionCount, lock, diskVars, sinval, xactVars, phase, env,
                   bgwVars, budget>>

\* a checkpoint that does not wait for the lock
CheckPointRelationMap_NoWait(p) ==
    /\ ~Panicked /\ pc[p] = "ckpt_lock"
    /\ lock' = LWLockAcquireShared(p)
    /\ pc' = [pc EXCEPT ![p] = "ckpt_unlock"]
    /\ UNCHANGED <<sessVars, frame, CritSectionCount, diskVars, sinval, xactVars, phase, env,
                   bgwVars, budget>>

\* LWLockAcquire(RelationMappingLock, LW_SHARED)
CheckPointRelationMap(p) ==
    /\ ~Panicked /\ pc[p] = "ckpt_lock"
    /\ CanLockShared
    /\ lock' = LWLockAcquireShared(p)
    /\ pc' = [pc EXCEPT ![p] = "ckpt_unlock"]
    /\ UNCHANGED <<sessVars, frame, CritSectionCount, diskVars, sinval, xactVars, phase, env,
                   bgwVars, budget>>

\* LWLockRelease(RelationMappingLock) and the return
CheckPointReturn(p) ==
    /\ ~Panicked /\ pc[p] = "ckpt_unlock"
    /\ lock' = LWLockRelease(p)
    /\ pc' = [pc EXCEPT ![p] = "idle"]
    /\ UNCHANGED <<sessVars, frame, CritSectionCount, diskVars, sinval, xactVars, phase, env,
                   bgwVars, budget>>

CheckPointSteps(p) ==
    \/ CheckPointStart(p)
    \/ CheckPointRelationMap(p)
    \/ CheckPointReturn(p)

\* Session 1 changes the maps and commits, while system calls can fail;
\* process 2 takes the invalidation messages and runs checkpoints.
InitCheckpoint ==
    /\ InitSessions
    /\ InitFiles
    /\ Started
    /\ \E retry \in BOOLEAN :
          env = [Settings(FALSE, FALSE) EXCEPT !.data_sync_retry = retry]
    /\ budget = [NoBudget EXCEPT !.faults = MaxFaults]
    /\ BgwInit

NextCheckpoint ==
    \/ WriteSteps(1)
    \/ CommitSteps(1)
    \/ AbortAfterError(1)
    \/ \E shared \in BOOLEAN : RelationMapInvalidate(2, shared)
    \/ \E p \in Procs : LoadSteps(p)
    \/ CheckPointSteps(2)

SpecCheckpoint == InitCheckpoint /\ [][NextCheckpoint]_vars

\* ================================================================ claims
\* the entries a map holds, and the filenode the set of entries gives a relation
Entries(map) == {Slot(map, i) : i \in 1..map.num_mappings}
HasOid(map, o) == \E e \in Entries(map) : e.mapoid = o
NodeOf(map, o) == (CHOOSE e \in Entries(map) : e.mapoid = o).mapfilenode

NoUpdates(p) ==
    \A s \in BOOLEAN :
        /\ active_updates[p][s].num_mappings = 0
        /\ pending_updates[p][s].num_mappings = 0

\* a session whose commit has returned
Committed(p) == pc[p] = "idle" /\ xact[p].state = "committed"

\* C1 as stated: after the commit returned, RelationMapOidToFilenode gives,
\* for every relation the transaction staged, the filenode of the last
\* RelationMapUpdateMap call made for it in that scope, whatever the mix of
\* immediate and non-immediate calls.
C1_LastCallWins ==
    \A p \in Procs : Committed(p) =>
        \A s \in BOOLEAN, o \in Oids :
            hist[p].last[s][o] # 0 =>
                RelationMapOidToFilenode(p, o, s) = hist[p].last[s][o]

\* C1 amended: the same, except for a relation whose last call was immediate
\* and made while a non-immediate update of that relation was still pending:
\* AtCCI_RelationMap merges the pending filenode over the active one, and
\* the lookup gives the pending filenode.
C1_LastCallWinsUnlessShadowed ==
    \A p \in Procs : Committed(p) =>
        \A s \in BOOLEAN, o \in Oids :
            hist[p].last[s][o] # 0 =>
                RelationMapOidToFilenode(p, o, s) =
                    IF hist[p].shadow[s][o] # InvalidOid THEN hist[p].shadow[s][o]
                    ELSE hist[p].last[s][o]

\* a commit that changed a relation's filenode to the one staged last
C1_Witness ==
    \E p \in Procs, s \in BOOLEAN, o \in Oids :
        /\ Committed(p)
        /\ hist[p].last[s][o] # 0 /\ hist[p].shadow[s][o] = InvalidOid
        /\ hist[p].last[s][o] # hist[p].before[s][o]
        /\ RelationMapOidToFilenode(p, o, s) = hist[p].last[s][o]

\* C2: RelationMapOidToFilenode(relationId, shared) is the filenode of the
\* active updates of that scope if they have the relation, else that of the
\* session's map of that scope, else InvalidOid; the pending updates and the
\* other scope's maps play no part.
C2_LookupOrder ==
    \A p \in Procs, s \in BOOLEAN, o \in Oids :
        RelationMapOidToFilenode(p, o, s) =
            IF HasOid(active_updates[p][s], o) THEN NodeOf(active_updates[p][s], o)
            ELSE IF HasOid(real_map[p][s], o) THEN NodeOf(real_map[p][s], o)
            ELSE InvalidOid

\* the active updates override the map while a pending update and the other
\* scope hold other filenodes for the relation
C2_Witness ==
    \E p \in Procs, s \in BOOLEAN, o \in Oids :
        /\ HasOid(active_updates[p][s], o) /\ HasOid(real_map[p][s], o)
        /\ NodeOf(active_updates[p][s], o) # NodeOf(real_map[p][s], o)
        /\ HasOid(pending_updates[p][s], o)
        /\ NodeOf(pending_updates[p][s], o) # NodeOf(active_updates[p][s], o)
        /\ RelationMapOidToFilenode(p, o, s) = NodeOf(active_updates[p][s], o)

\* C3: whenever no transaction is open in a session (none begun yet, or
\* AtEOXact_RelationMap has returned, for commit or abort), its active and
\* pending updates of both scopes hold no entry.
C3_NoUpdatesOutsideXact ==
    \A p \in Procs : (pc[p] = "idle" /\ ~InXact(p)) => NoUpdates(p)

\* a commit of staged updates has returned
C3_Witness ==
    \E p \in Procs, s \in BOOLEAN, o \in Oids :
        Committed(p) /\ hist[p].last[s][o] # 0 /\ NoUpdates(p)

\* C4: AtEOXact_RelationMap(isCommit = false, or in a parallel worker) empties
\* the active and pending updates and changes neither the session's maps, nor
\* the files, the WAL, the preserved storage or any sinval queue; afterwards
\* RelationMapOidToFilenode answers what it answered when the transaction began.
C4_AbortDiscards ==
    [][\A p \in Procs :
          (pc[p] = "idle" /\ InXact(p) /\ xact'[p].state = "aborted") =>
              /\ NoUpdates(p)'
              /\ UNCHANGED <<real_map, file, wal, preserved, sinval, lock>>
              /\ \A s \in BOOLEAN, o \in Oids :
                    RelationMapOidToFilenode(p, o, s)' = hist[p].before[s][o]]_vars

\* an abort discarded an update that had changed what the lookup answered
C4_Witness ==
    \E p \in Procs, s \in BOOLEAN, o \in Oids :
        /\ pc[p] = "idle" /\ xact[p].state = "aborted"
        /\ hist[p].last[s][o] # 0 /\ hist[p].last[s][o] # hist[p].before[s][o]
        /\ wal = <<>>
        /\ RelationMapOidToFilenode(p, o, s) = hist[p].before[s][o]

\* ---------------------------------------------------------------- C6
\* a flushed XLOG_RELMAP_UPDATE record of the scope carries the image
Logged(s, img) ==
    \E k \in 1..Len(wal) : wal[k].shared = s /\ wal[k].data = img /\ wal[k].flushed

\* session p is in write_relmap_file, past the XLogFlush of its record
PastXLogFlush(p) ==
    \/ pc[p] \in {"w_write", "w_fsync", "w_fsync_done", "w_sinval", "w_finish"}
    \/ pc[p] = "w_open" /\ frame[p].i = 1

\* C6: log before data.  A write_relmap_file with write_wal that has come to
\* its first write() has its record inserted and flushed, and every whole
\* image a map file copy holds, other than the one initdb left, is the image
\* of a flushed record of that scope.
C6_LogBeforeData ==
    /\ \A p \in Procs :
          (frame[p].write_wal /\ PastXLogFlush(p)) => Logged(frame[p].shared, frame[p].new_map)
    /\ \A s \in BOOLEAN, name \in {"map", "bak"} :
          LET d == file[s][name].data
          IN (d.st = "full" /\ EQ_CRC32(d.img) /\ d.img # BaseMap) => Logged(s, d.img)

\* the backup copy holds a new image and the primary copy is still to be written
C6_Witness ==
    \E p \in Procs :
        /\ pc[p] = "w_fsync" /\ frame[p].i = 0 /\ frame[p].write_wal
        /\ frame[p].new_map # BaseMap
        /\ file[frame[p].shared]["bak"].data = FullFile(frame[p].new_map)
        /\ file[frame[p].shared]["map"].data = FullFile(BaseMap)

\* ---------------------------------------------------------------- C7
\* copy name of the scope is written and on stable storage with the image
Flushed(s, name, img) ==
    file[s][name].data = FullFile(img) /\ file[s][name].durable = FullFile(img)

\* perform_relmap_update of session p has returned from write_relmap_file
Persisted(p) == pc[p] = "unlock" /\ frame[p].caller = "perform"

\* C7: backup first, primary second, each flushed before the next step; the
\* invalidation and the session's map follow both flushes; a returned
\* write_relmap_file leaves both copies flushed and alike.
C7_BackupThenPrimary ==
    /\ [](\A p \in Procs :
            LET s == frame[p].shared
                new == frame[p].new_map
            IN /\ (pc[p] \in {"w_open", "w_write", "w_fsync", "w_fsync_done"} /\ frame[p].i = 1)
                      => Flushed(s, "bak", new)
               /\ (pc[p] \in {"w_xlog_insert", "w_xlog_flush"}
                      \/ (pc[p] \in {"w_open", "w_write", "w_fsync", "w_fsync_done"}
                             /\ frame[p].i = 0))
                      => file[s]["map"] = [data |-> FullFile(real_map[p][s]),
                                           durable |-> FullFile(real_map[p][s])]
               /\ (pc[p] \in {"w_sinval", "w_finish"} \/ Persisted(p))
                      => Flushed(s, "bak", new) /\ Flushed(s, "map", new)
               /\ Persisted(p) => real_map[p][s] = new)
    /\ [][\A p \in Procs :
            LET s == frame[p].shared
                new == frame[p].new_map
            IN ((pc[p] \in {"w_sinval", "w_finish"})
                  /\ (sinval' # sinval \/ real_map' # real_map))
                   => Flushed(s, "bak", new) /\ Flushed(s, "map", new)]_vars
    /\ [][(sinval' # sinval /\ \E q \in Procs : ~(sinval'[q] \subseteq sinval[q]))
             => \E p \in Procs : pc[p] = "w_sinval"]_vars

\* a commit that changed the shared map has written both copies
C7_Witness ==
    \E p \in Procs :
        /\ Persisted(p) /\ frame[p].shared
        /\ frame[p].new_map # BaseMap
        /\ Flushed(TRUE, "bak", frame[p].new_map)
        /\ Flushed(TRUE, "map", frame[p].new_map)
        /\ \A q \in Procs \ {p} : TRUE \in sinval[q]

\* ---------------------------------------------------------------- C8
\* session p is in write_relmap_file after XLogInsert emitted its record
AfterXLogInsert(p) ==
    frame[p].write_wal /\ (pc[p] = "w_xlog_flush" \/ PastXLogFlush(p))

\* C8: a failure after the record was emitted is a PANIC; no session is left
\* with an ERROR or FATAL to recover from while the copies of a map file differ.
C8_FailureAfterLogPanics ==
    /\ [](\A p \in Procs :
            pc[p] \in {"error", "dead"} =>
                \A s \in BOOLEAN : file[s]["map"] = file[s]["bak"])
    /\ [][\A p \in Procs :
            (AfterXLogInsert(p) /\ pc'[p] \in {"error", "dead", "panic"})
                => pc'[p] = "panic"]_vars

\* a write() of the primary copy failed after the backup copy was replaced
C8_Witness ==
    \E p \in Procs :
        /\ pc[p] = "panic" /\ frame[p].write_wal /\ frame[p].i = 1
        /\ Len(wal) > 0
        /\ \E s \in BOOLEAN : file[s]["map"].data # file[s]["bak"].data

\* ---------------------------------------------------------------- C5
\* the image of the primary copy of a scope
OnDisk(s) == file[s]["map"].data.img

\* C5: no lost update.  Once every session has committed, the file of each
\* scope maps every relation a session changed in its transaction to the
\* filenode that session gave it last.
C5_NoLostUpdate ==
    (\A p \in Procs : Committed(p)) =>
        \A p \in Procs, s \in BOOLEAN, o \in Oids :
            hist[p].last[s][o] # 0 =>
                /\ HasOid(OnDisk(s), o)
                /\ NodeOf(OnDisk(s), o) = hist[p].last[s][o]
                /\ file[s]["bak"] = file[s]["map"]

\* both sessions committed a change of the shared map, the second of them
\* with a session map that was behind the file
C5_Witness ==
    /\ \A p \in Procs : Committed(p)
    /\ hist[1].last[TRUE][1] = 2 /\ hist[2].last[TRUE][2] = 1
    /\ Len(wal) = 2 /\ wal[1].data = real_map[1][TRUE]
    /\ hist[2].stale[TRUE]
    /\ NodeOf(OnDisk(TRUE), 1) = 2 /\ NodeOf(OnDisk(TRUE), 2) = 1

\* ---------------------------------------------------------------- C9
\* the image the last write_relmap_file of the scope was called with (the
\* record carries it), or the one initdb wrote
LastWritten(s) ==
    LET ks == {k \in 1..Len(wal) : wal[k].shared = s}
    IN IF ks = {} THEN BaseMap
       ELSE wal[CHOOSE k \in ks : \A j \in ks : j <= k].data

\* C9: round trip.  load_relmap_file returns with the session's map equal,
\* field by field, to the map the last write_relmap_file of the scope was
\* given, and no load of a written file fails.
C9_RoundTrip ==
    \A q \in Procs :
        /\ pc[q] # "dead"
        /\ pc[q] = "load_ret" =>
              LET m == real_map[q][frame[q].shared]
                  t == LastWritten(frame[q].shared)
              IN /\ Entries(m) = Entries(t)
                 /\ m.num_mappings = t.num_mappings
                 /\ m.magic = t.magic
                 /\ m.crc = t.crc
                 /\ m.mappings = t.mappings

\* a session re-reads, for an invalidation message, a map that the other
\* session wrote with two entries
C9_Witness ==
    \E q \in Procs :
        /\ pc[q] = "load_ret" /\ frame[q].caller = "invalidate"
        /\ \E k \in 1..Len(wal) : wal[k].shared = frame[q].shared
        /\ real_map[q][frame[q].shared].num_mappings = MAX_MAPPINGS
        /\ real_map[q][frame[q].shared] = LastWritten(frame[q].shared)

\* ---------------------------------------------------------------- C10
\* a copy that load_relmap_file accepts
ValidCopy(c) == c.data.st = "full" /\ EQ_CRC32(c.data.img) /\ ValidHeader(c.data.img)

\* C10: when the primary copy failed its checksum (retry) and the backup copy
\* is valid, load_relmap_file does not fail, and it returns with the
\* session's map equal to the backup copy and the primary copy rewritten and
\* flushed to be the same as the backup copy.
C10_FallbackToBackup ==
    \A p \in Procs :
        LET s == frame[p].shared IN
        /\ (pc[p] = "dead" /\ frame[p].retry) => ~ValidCopy(file[s]["bak"])
        /\ (pc[p] = "load_ret" /\ frame[p].retry) =>
              /\ ValidCopy(file[s]["bak"])
              /\ real_map[p][s] = file[s]["bak"].data.img
              /\ file[s]["map"].data = file[s]["bak"].data
              /\ file[s]["map"].durable = file[s]["map"].data

\* a reload after a commit found the primary copy damaged and took the
\* committed map from the backup copy
C10_Witness ==
    \E p \in Procs :
        LET s == frame[p].shared IN
        /\ pc[p] = "load_ret" /\ frame[p].retry
        /\ Len(wal) > 0 /\ real_map[p][s] = LastWritten(s)
        /\ real_map[p][s] # BaseMap
        /\ file[s]["map"] = file[s]["bak"]

\* ---------------------------------------------------------------- C11
\* an image with a matching checksum, the magic, and a count in 0..MAX_MAPPINGS
SoundImage(m) ==
    /\ m.crc = ComputeCrc(m)
    /\ m.magic = RELMAPPER_FILEMAGIC
    /\ m.num_mappings >= 0 /\ m.num_mappings <= MAX_MAPPINGS

\* C11: load_relmap_file returns only with a sound map in the session; a
\* session that is not in a load holds, per scope, a sound map or none; the
\* backup copy is read at most once per load; and a load that reads an
\* unsound backup copy, or a copy with a matching checksum and a bad header,
\* ends the session (FATAL).
C11_NoCorruptMapLoaded ==
    /\ [](\A p \in Procs, s \in BOOLEAN :
            /\ (pc[p] = "load_ret" /\ frame[p].shared = s) => SoundImage(real_map[p][s])
            /\ pc[p] = "idle" => (real_map[p][s] = ZeroMap \/ SoundImage(real_map[p][s])))
    /\ [][\A p \in Procs :
            (pc[p] = "load_read" /\ pc'[p] # pc[p]) =>
                LET m == file[frame[p].shared][frame[p].file_name].data.img
                IN /\ frame[p].retry => pc'[p] \in {"dead", "rec_open"}
                   /\ (frame[p].retry /\ ~SoundImage(m)) => pc'[p] = "dead"
                   /\ (m.crc = ComputeCrc(m) /\ ~SoundImage(m)) => pc'[p] = "dead"]_vars

\* both copies of the shared map failed their checksum and the session ended
C11_Witness ==
    \E p \in Procs :
        /\ pc[p] = "dead" /\ frame[p].shared /\ frame[p].retry
        /\ ~EQ_CRC32(file[TRUE]["map"].data.img)
        /\ ~EQ_CRC32(file[TRUE]["bak"].data.img)
        /\ real_map[p][TRUE] = file[TRUE]["bak"].data.img

\* ---------------------------------------------------------------- C12
\* C12: once the commit of a transaction that staged (non-immediate), promoted
\* and committed a filenode for a relation has returned in session 1, the
\* lookup in session 1 gives that filenode, and so does the lookup in session
\* 2 whenever session 2 holds a valid map of that scope, has no invalidation
\* message of that scope left in its queue and is not in the middle of a
\* load (it is idle, or its load has returned).
C12_VisibleAfterInvalidation ==
    \A s \in BOOLEAN, o \in Oids :
        (Committed(1) /\ hist[1].last[s][o] # InvalidOid) =>
            /\ RelationMapOidToFilenode(1, o, s) = hist[1].last[s][o]
            /\ (/\ pc[2] \in {"idle", "unlock"}
                /\ real_map[2][s].magic = RELMAPPER_FILEMAGIC
                /\ s \notin sinval[2])
               => RelationMapOidToFilenode(2, o, s) = hist[1].last[s][o]

\* session 2 re-read the local map for session 1's message and sees the new
\* filenode, which its map did not hold when it started
C12_Witness ==
    \E o \in Oids :
        /\ Committed(1)
        /\ hist[1].last[FALSE][o] # InvalidOid
        /\ hist[1].last[FALSE][o] # hist[1].before[FALSE][o]
        /\ pc[2] = "unlock" /\ frame[2].caller = "invalidate" /\ ~frame[2].shared
        /\ sinval[2] = {}
        /\ RelationMapOidToFilenode(2, o, FALSE) = hist[1].last[FALSE][o]

\* ---------------------------------------------------------------- C16
\* C16: RelationMapInvalidate and RelationMapInvalidateAll start a load only
\* of a map that is valid (loaded) at that moment; a scope that no
\* RelationMapInitializePhase2/3 has loaded stays the empty, invalid map
\* through every invalidation, and taking a message for such a scope starts
\* no load.
C16_InvalidateSkipsUnloaded ==
    /\ [](\A p \in Procs :
            /\ (phase[p] = 0 /\ frame[p].caller # "phase2") => real_map[p][TRUE] = ZeroMap
            /\ (phase[p] <= 1 /\ frame[p].caller # "phase3") => real_map[p][FALSE] = ZeroMap
            /\ (pc[p] = "load_stat" /\ frame[p].caller \in {"invalidate", "invalidate_all"})
               => real_map[p][frame[p].shared].magic = RELMAPPER_FILEMAGIC)
    /\ [][\A p \in Procs, s \in BOOLEAN :
            (/\ pc[p] = "idle" /\ s \in sinval[p] /\ s \notin sinval'[p]
             /\ budget' = budget
             /\ real_map[p][s].magic # RELMAPPER_FILEMAGIC)
            => (pc'[p] = "idle" /\ real_map' = real_map /\ lock' = lock)]_vars

\* session 2 has loaded the shared map only; it took the message of session
\* 1's commit to the local map (its queue was never reset), and its local
\* map is still the empty one
C16_Witness ==
    /\ Committed(1)
    /\ \E o \in Oids : hist[1].last[FALSE][o] # InvalidOid
    /\ phase[2] = 1 /\ pc[2] = "idle"
    /\ sinval[2] = {} /\ budget.resets = MaxResets
    /\ real_map[2][FALSE] = ZeroMap
    /\ real_map[2][TRUE].magic = RELMAPPER_FILEMAGIC

\* ---------------------------------------------------------------- C13
\* C13: a RelationMapUpdateMap call made at a transaction nest level above 1,
\* or in parallel mode, raises an ERROR with ERRCODE_FEATURE_NOT_SUPPORTED and
\* leaves the session's maps, active updates and pending updates, and the
\* map files, as they were.
\* (Stated as: every step either is such a refusal in session p, or is no
\* RelationMapUpdateMap call of p at a nest level above 1 or in parallel mode.)
C13_RefusedInSubxactOrParallel ==
    [][\A p \in Procs :
          \/ /\ pc'[p] = "error"
             /\ hist'[p].errcode = "ERRCODE_FEATURE_NOT_SUPPORTED"
             /\ UNCHANGED <<real_map, active_updates, pending_updates, file>>
          \/ \A nestLevel \in NestLevels, inParallel \in BOOLEAN :
                (nestLevel > 1 \/ inParallel) =>
                    \A relationId \in StageOids, fileNode \in Filenodes,
                       shared \in BOOLEAN, immediate \in BOOLEAN :
                       ~RelationMapUpdateMap(p, relationId, fileNode, shared, immediate,
                                             nestLevel, inParallel)]_vars

\* a call was refused in a transaction that holds staged updates
C13_Witness ==
    \E p \in Procs :
        /\ pc[p] = "error"
        /\ hist[p].errcode = "ERRCODE_FEATURE_NOT_SUPPORTED"
        /\ active_updates[p][TRUE].num_mappings > 0
        /\ pending_updates[p][TRUE].num_mappings > 0

\* ---------------------------------------------------------------- C14
\* the updates a RelationMapUpdateMap call outside bootstrap mode goes to
StagedUpdates(p, shared, immediate) ==
    IF immediate THEN active_updates[p][shared] ELSE pending_updates[p][shared]

\* C14: every map of a session holds between 0 and MAX_MAPPINGS entries in
\* every state; a RelationMapUpdateMap call (top level, no parallel mode) for
\* a relation the target updates already hold replaces its filenode and
\* keeps the count, even when the target is full; for a new relation it adds
\* an entry, unless the target holds MAX_MAPPINGS entries: then it raises an
\* ERROR with ERRCODE_PROGRAM_LIMIT_EXCEEDED and the target is unchanged.
C14_CapacityBound ==
    /\ [](\A p \in Procs, s \in BOOLEAN :
            \A m \in {real_map[p][s], active_updates[p][s], pending_updates[p][s]} :
                m.num_mappings >= 0 /\ m.num_mappings <= MAX_MAPPINGS)
    /\ [][\A p \in Procs, relationId \in StageOids, fileNode \in Filenodes,
            shared \in BOOLEAN, immediate \in BOOLEAN :
            RelationMapUpdateMap(p, relationId, fileNode, shared, immediate, 1, FALSE) =>
                LET old == StagedUpdates(p, shared, immediate)
                    new == StagedUpdates(p, shared, immediate)'
                IN IF HasOid(old, relationId)
                   THEN /\ pc'[p] = "idle"
                        /\ new.num_mappings = old.num_mappings
                        /\ NodeOf(new, relationId) = fileNode
                   ELSE IF old.num_mappings = MAX_MAPPINGS
                   THEN /\ pc'[p] = "error"
                        /\ hist'[p].errcode = "ERRCODE_PROGRAM_LIMIT_EXCEEDED"
                        /\ new = old
                   ELSE /\ pc'[p] = "idle"
                        /\ new.num_mappings = old.num_mappings + 1
                        /\ NodeOf(new, relationId) = fileNode]_vars

\* an immediate call for a new relation failed on full active updates (no
\* update is pending, so the ERROR is not one of AtCCI_RelationMap)
C14_Witness ==
    \E p \in Procs, s \in BOOLEAN :
        /\ pc[p] = "error"
        /\ hist[p].errcode = "ERRCODE_PROGRAM_LIMIT_EXCEEDED"
        /\ NoPending(p)
        /\ active_updates[p][s].num_mappings = MAX_MAPPINGS

\* ---------------------------------------------------------------- C15
\* allowSystemTableMods || IsInplaceUpgrade
Privileged == env.allowSystemTableMods \/ env.IsInplaceUpgrade

OidsOf(map) == {e.mapoid : e \in Entries(map)}

\* C15 as stated: without the privilege, AtCCI_RelationMap brings into the
\* active updates of a scope no relation that neither they nor the session's
\* map of that scope held before.
C15_PromoteRejectsNewIds ==
    [][\A p \in Procs :
          (AtCCI_RelationMap(p) /\ ~Privileged) =>
              \A s \in BOOLEAN :
                  OidsOf(active_updates[p][s])' \subseteq
                      (OidsOf(active_updates[p][s]) \cup OidsOf(real_map[p][s]))]_vars

\* C15 amended: AtCCI_RelationMap merges every pending update into the
\* active updates, new relations included, whatever the privilege.  The
\* rejection is perform_relmap_update's, at commit: without the privilege, a
\* merge of active updates that hold a relation the re-read map lacks raises
\* an ERROR with ERRCODE_FEATURE_NOT_SUPPORTED before anything is logged or
\* written, every other merge goes on to write the merged map, and the map
\* files never hold a relation initdb did not map.
C15_CommitRejectsNewIds ==
    /\ [][\A p \in Procs :
            AtCCI_RelationMap(p) =>
                /\ pc'[p] = "idle"
                /\ \A s \in BOOLEAN :
                      /\ pending_updates'[p][s].num_mappings = 0
                      /\ \A o \in OidsOf(pending_updates[p][s]) :
                            /\ HasOid(active_updates'[p][s], o)
                            /\ NodeOf(active_updates'[p][s], o) = NodeOf(pending_updates[p][s], o)]_vars
    /\ [][\A p \in Procs :
            PerformMerge(p) =>
                LET s == frame[p].shared
                IN IF ~Privileged
                      /\ ~(OidsOf(active_updates[p][s]) \subseteq OidsOf(real_map[p][s]))
                   THEN /\ pc'[p] = "error"
                        /\ hist'[p].errcode = "ERRCODE_FEATURE_NOT_SUPPORTED"
                        /\ UNCHANGED <<real_map, file, wal>>
                   ELSE /\ pc'[p] = "w_open"
                        /\ \A o \in OidsOf(active_updates[p][s]) :
                              NodeOf(frame'[p].new_map, o) = NodeOf(active_updates[p][s], o)]_vars
    /\ [](~Privileged =>
            \A s \in BOOLEAN, name \in {"map", "bak"} :
                OidsOf(file[s][name].data.img) \subseteq OidsOf(BaseMap))

\* without the privilege, a relation staged as pending and made active by
\* AtCCI_RelationMap was refused by the commit
C15_Witness ==
    \E p \in Procs, s \in BOOLEAN, o \in Oids :
        /\ ~Privileged
        /\ pc[p] = "error" /\ frame[p].caller = "perform" /\ frame[p].shared = s
        /\ hist[p].errcode = "ERRCODE_FEATURE_NOT_SUPPORTED"
        /\ HasOid(active_updates[p][s], o) /\ ~HasOid(real_map[p][s], o)
        /\ NoPending(p)
        /\ hist[p].shadow[s][o] = InvalidOid /\ hist[p].last[s][o] # InvalidOid

C17_Witness ==
    /\ pm.pc = "examine"
    /\ registered[pm.slotno].generation = 2
    /\ ~registered[pm.slotno].examined
    /\ Read(Postmaster, pm.slotno, "worker") = registered[pm.slotno].worker
    /\ \E p \in Procs : bgw_pc[p] = "reg_release" /\ BackgroundWorkerLock.excl = p

\* The part of C17 that the barrier pair does secure: the descriptor, the
\* generation and the terminate flag the pass reads are the registration's.
C17_DescriptorComplete ==
    pm.pc = "examine" =>
        LET i == pm.slotno
        IN /\ Read(Postmaster, i, "worker") = registered[i].worker
           /\ Read(Postmaster, i, "generation") = registered[i].generation
           /\ Read(Postmaster, i, "terminate") => registered[i].terminated

\* ---------------------------------------------------------------- C18
\* the handles that name slot i
HandlesOf(i) == {p \in Procs : bgw_frame[p].handle.slot = i}

\* C18: slot->generation changes only by going up by one, while the slot is
\* not in use and a registration holding BackgroundWorkerLock is filling it;
\* whenever a slot goes from free to in use its generation is above that of
\* every handle given out for the slot before, so no two handles of one slot
\* carry the same generation and no handle is ahead of its slot.
C18_GenerationStrictlyIncreases ==
    [][\A i \in Slots :
          LET slot == background_worker_data.slot[i]
              slot_ == background_worker_data'.slot[i]
          IN /\ slot_.generation # slot.generation =>
                   /\ slot_.generation = slot.generation + 1
                   /\ ~slot.in_use
                   /\ \E p \in Procs : /\ BackgroundWorkerLock.excl = p
                                       /\ bgw_pc[p] \in {"reg_publish", "reg_release"}
                                       /\ bgw_frame[p].slotno = i
             /\ (~slot.in_use /\ slot_.in_use) =>
                   \A p \in HandlesOf(i) : bgw_frame[p].handle.generation < slot_.generation
             /\ \A p \in HandlesOf(i)' : bgw_frame'[p].handle.generation <= slot_.generation
             /\ \A p, q \in HandlesOf(i)' :
                   p # q => bgw_frame'[p].handle.generation # bgw_frame'[q].handle.generation
      ]_vars

\* two backends hold handles of the same slot, from its first and its second
\* registration, and the earlier handle no longer matches the slot
C18_Witness ==
    /\ bgw_frame[1].handle.slot = 1 /\ bgw_frame[2].handle.slot = 1
    /\ bgw_frame[1].handle.generation # bgw_frame[2].handle.generation
    /\ background_worker_data.slot[1].in_use
    /\ background_worker_data.slot[1].generation = 2
    /\ \E p \in Procs : bgw_frame[p].handle.generation = 1

\* ---------------------------------------------------------------- C19
\* C19: GetBackgroundWorkerPid answers from what it reads of the handle's
\* slot under the shared lock: BGWH_STOPPED if the generation differs from
\* the handle's, if in_use is false or if pid is 0, BGWH_NOT_YET_STARTED if
\* the generation matches, in_use is true and pid is InvalidPid, and else
\* BGWH_STARTED together with the pid it read; it stores nothing in the slot.
C19_StatusFromSlot ==
    [][\A p \in Procs :
          LET h == bgw_frame[p].handle
          IN /\ (bgw_pc[p] = "idle" /\ bgw_pc'[p] = "get_pid") =>
                   /\ bgw_frame'[p].stale =
                         (h.generation # Read(p, h.slot, "generation")
                          \/ ~Read(p, h.slot, "in_use"))
                   /\ UNCHANGED <<background_worker_data, store_buffer>>
             /\ (bgw_pc[p] = "get_pid" /\ bgw_pc'[p] = "idle") =>
                   LET pid == Read(p, h.slot, "pid")
                       stopped == \/ bgw_frame[p].stale
                                  \/ h.generation # Read(p, h.slot, "generation")
                                  \/ pid = 0
                   IN /\ bgw_frame'[p].status =
                            IF stopped THEN "BGWH_STOPPED"
                            ELSE IF pid = InvalidPid THEN "BGWH_NOT_YET_STARTED"
                            ELSE "BGWH_STARTED"
                      /\ bgw_frame'[p].status = "BGWH_STARTED" => bgw_frame'[p].pid = pid
                      /\ UNCHANGED <<background_worker_data, store_buffer>>
      ]_vars

\* a call has answered BGWH_STARTED with the thread id of the running worker
C19_Witness ==
    /\ bgw_pc[1] = "idle"
    /\ bgw_frame[1].status = "BGWH_STARTED"
    /\ bgw_frame[1].pid \in ThreadIds
    /\ bgw_frame[1].pid = background_worker_data.slot[bgw_frame[1].handle.slot].pid

\* ---------------------------------------------------------------- C20
\* the handle of p is the one of the last registration made in its slot, and
\* no pass of BackgroundWorkerStateChange has examined the slot since
FreshHandle(p) ==
    LET h == bgw_frame[p].handle
    IN /\ h.slot # 0
       /\ h.generation = registered[h.slot].generation
       /\ ~registered[h.slot].examined

\* C20: a GetBackgroundWorkerPid that returns on the handle of a registration
\* whose slot no pass of the postmaster has examined yet answers
\* BGWH_NOT_YET_STARTED or BGWH_STOPPED, never BGWH_STARTED, whatever the
\* other backends register or terminate meanwhile.
C20_NotStartedBeforeReconcile ==
    [][\A p \in Procs :
          (bgw_pc[p] = "get_pid" /\ bgw_pc'[p] = "idle" /\ FreshHandle(p)) =>
              /\ bgw_frame'[p].status \in {"BGWH_NOT_YET_STARTED", "BGWH_STOPPED"}
              /\ bgw_frame'[p].pid = 0
      ]_vars

\* the call has answered BGWH_NOT_YET_STARTED for the second registration of
\* a slot, which no pass has examined, while the other backend has a call of
\* its own under way
C20_Witness ==
    /\ bgw_pc[1] = "idle"
    /\ FreshHandle(1)
    /\ bgw_frame[1].handle.generation = 2
    /\ bgw_frame[1].status = "BGWH_NOT_YET_STARTED"
    /\ bgw_pc[2] # "idle"

\* ---------------------------------------------------------------- C21
\* the handle of p names a slot whose generation has moved on
StaleHandle(p) ==
    LET h == bgw_frame[p].handle
    IN h.slot # 0 /\ h.generation # Read(p, h.slot, "generation")

\* C21: TerminateBackgroundWorker on a handle whose generation is not the
\* slot's makes no store (terminate, pid, in_use, generation and descriptor
\* of the slot stay as they are, in memory and on the way to it), leaves the
\* postmaster unsignalled, and does not mark the slot's occupant terminated.
C21_StaleTerminateIsNoOp ==
    [][\A p \in Procs :
          /\ (bgw_pc[p] = "idle" /\ bgw_pc'[p] = "term_release" /\ StaleHandle(p)) =>
                /\ UNCHANGED <<background_worker_data, store_buffer, pm, registered,
                               background_worker_list>>
                /\ ~bgw_frame'[p].signal_postmaster
          /\ (bgw_pc[p] = "term_release" /\ bgw_pc'[p] = "idle"
              /\ ~bgw_frame[p].signal_postmaster) =>
                UNCHANGED <<background_worker_data, store_buffer, pm, registered,
                            background_worker_list>>
      ]_vars

\* backend 1 has called TerminateBackgroundWorker with the handle of the
\* slot's first registration while the second one occupies the slot
C21_Witness ==
    /\ bgw_pc[1] = "term_release"
    /\ ~bgw_frame[1].signal_postmaster
    /\ bgw_frame[1].handle.generation = 1
    /\ background_worker_data.slot[bgw_frame[1].handle.slot].generation = 2
    /\ background_worker_data.slot[bgw_frame[1].handle.slot].in_use
    /\ ~background_worker_data.slot[bgw_frame[1].handle.slot].terminate

\* ---------------------------------------------------------------- C22
\* the backends whose call has returned true, and those whose call has returned
Winners == {p \in Procs : bgw_frame[p].result = "true"}
Returned == {p \in Procs : bgw_frame[p].result \in {"true", "false"}}

CeilingReached(p) ==
    /\ bgw_frame[p].worker.parallel
    /\ InFlight(Read(p, 0, "parallel_register_count"),
                Read(p, 0, "parallel_terminate_count")) >= max_parallel_workers
NoFreeSlot(p) == \A i \in Slots : Read(p, i, "in_use")

\* the slots, the two parallel counters, the stores on their way to them and
\* the postmaster's signal flag stay as they are
NoTrace == UNCHANGED <<background_worker_data, store_buffer, pm, background_worker_list>>

\* a call that finds the ceiling reached or no slot free stores nothing and
\* returns false without a signal to the postmaster
FailsInScan(p) ==
    /\ (bgw_pc[p] = "reg_scan" /\ bgw_pc'[p] # "reg_scan"
        /\ (CeilingReached(p) \/ NoFreeSlot(p))) =>
          /\ bgw_pc'[p] = "reg_release"
          /\ ~bgw_frame'[p].success
          /\ NoTrace
    /\ (bgw_pc[p] = "reg_release" /\ bgw_pc'[p] = "idle" /\ ~bgw_frame[p].success) =>
          /\ bgw_frame'[p].result = "false"
          /\ bgw_frame'[p].handle = bgw_frame[p].handle
          /\ NoTrace

\* a step of p alone that leaves p idle: a call that returned at once
ReturnsAtOnce(p) ==
    bgw_pc[p] = "idle" /\ bgw_pc'[p] = "idle" /\ bgw_frame'[p] # bgw_frame[p]

\* C23 as stated: RegisterDynamicBackgroundWorker returns false, and raises
\* no error, when the caller is not under the postmaster, when the
\* descriptor fails SanityCheckBackgroundWorker, when the parallel ceiling
\* is reached and when no slot is free; in each case no slot field and no
\* parallel counter changes and the postmaster is not signalled.
C23_FailureIsAValue ==
    [][\A p \in Procs :
          /\ FailsInScan(p)
          /\ ReturnsAtOnce(p) =>
                \A call \in Descriptors \X BOOLEAN :
                   \/ ~(~call[2] \/ ~SanityCheckBackgroundWorker(call[1]))
                   \/ ~RegisterDynamicBackgroundWorker(p, call[1], call[2])
                   \/ bgw_frame'[p].result = "false" /\ NoTrace
      ]_vars

\* C23, amended: false is returned outside the postmaster's children, at the
\* parallel ceiling and with no slot free; a descriptor that fails
\* SanityCheckBackgroundWorker raises ERRCODE_INVALID_PARAMETER_VALUE; in
\* each of the four cases no slot field and no parallel counter changes, no
\* lock is left held and the postmaster is not signalled.
C23_FailureLeavesNoTrace ==
    [][\A p \in Procs :
          /\ FailsInScan(p)
          /\ ReturnsAtOnce(p) =>
                /\ NoTrace
                /\ UNCHANGED BackgroundWorkerLock
                /\ \A call \in Descriptors \X BOOLEAN :
                      \/ ~(~call[2] \/ ~SanityCheckBackgroundWorker(call[1]))
                      \/ ~RegisterDynamicBackgroundWorker(p, call[1], call[2])
                      \/ bgw_frame'[p].result =
                            IF ~call[2] THEN "false" ELSE "ERRCODE_INVALID_PARAMETER_VALUE"
      ]_vars

\* backend 1 has been refused a parallel worker at the ceiling although the
\* slot was free, the registered count having wrapped around
C23_Witness ==
    /\ bgw_pc[1] = "reg_release"
    /\ ~bgw_frame[1].success
    /\ CeilingReached(1)
    /\ ~NoFreeSlot(1)
    /\ Read(1, 0, "parallel_register_count") = 0

\* ---------------------------------------------------------------- C24
\* the parallel workers in flight as agent a reads the two counters
InFlightSeenBy(a) ==
    InFlight(Read(a, 0, "parallel_register_count"),
             Read(a, 0, "parallel_terminate_count"))

\* C24: the number of parallel workers in flight, the registered count less
\* the terminated count in the counters' unsigned arithmetic, is never
\* negative and never above max_parallel_workers, in memory and as any
\* backend or the postmaster reads it, across the counters' wrap-around.
C24_ParallelCeiling ==
    /\ InFlight(Mem(0, "parallel_register_count"), Mem(0, "parallel_terminate_count"))
          \in 0..max_parallel_workers
    /\ \A a \in Agents : InFlightSeenBy(a) \in 0..max_parallel_workers

\* a parallel worker is in flight and the registered count has wrapped
\* around while the terminated count has not
C24_Witness ==
    /\ Mem(0, "parallel_register_count") = 0
    /\ Mem(0, "parallel_terminate_count") = Uint32 - 1
    /\ \E i \in Slots : Mem(i, "in_use") /\ Mem(i, "worker").parallel
    /\ InFlightSeenBy(Postmaster) = max_parallel_workers

\* ---------------------------------------------------------------- C25
\* the stores agent a issues in a step
Issued(a) ==
    IF Len(store_buffer'[a]) > Len(store_buffer[a])
    THEN {store_buffer'[a][k] : k \in (Len(store_buffer[a]) + 1)..Len(store_buffer'[a])}
    ELSE {}
\* a store of agent a reaches memory in a step
Lands(a) == Len(store_buffer'[a]) < Len(store_buffer[a])

\* C25: in_use goes from false to true only by the store of a backend that
\* is inside RegisterDynamicBackgroundWorker with BackgroundWorkerLock held
\* exclusively, and from true to false only by a store of the postmaster.  A
\* backend issues a store to a slot's descriptor, pid, generation or in_use
\* only under the exclusive lock and only while it reads in_use as false,
\* and none of its stores changes those fields in memory while in_use is
\* true there; on a slot in use a backend only sets terminate to true.
C25_OwnershipHandOff ==
    [][/\ \A i \in Slots :
             LET slot == background_worker_data.slot[i]
                 slot_ == background_worker_data'.slot[i]
             IN /\ (~slot.in_use /\ slot_.in_use) =>
                      \E p \in Procs : /\ Lands(p)
                                       /\ BackgroundWorkerLock.excl = p
                                       /\ bgw_pc[p] = "reg_release"
                                       /\ bgw_frame[p].slotno = i
                /\ (slot.in_use /\ ~slot_.in_use) => Lands(Postmaster)
                /\ (slot.in_use /\ \E p \in Procs : Lands(p)) =>
                      /\ slot_.worker = slot.worker
                      /\ slot_.pid = slot.pid
                      /\ slot_.generation = slot.generation
                      /\ slot_.in_use
                      /\ slot_.terminate # slot.terminate => slot_.terminate
       /\ \A p \in Procs : \A st \in Issued(p) :
             st.field \in {"worker", "pid", "generation", "in_use", "terminate"} =>
                /\ BackgroundWorkerLock'.excl = p
                /\ IF Read(p, st.slotno, "in_use")
                   THEN st.field = "terminate" /\ st.val = TRUE
                   ELSE st.field = "in_use" => st.val = TRUE
       /\ \A st \in Issued(Postmaster) : st.field = "in_use" => st.val = FALSE
      ]_vars

\* the second registration of the slot is being filled in memory, after the
\* postmaster has freed the slot, while a backend's terminate request for
\* the first one has been taken
C25_Witness ==
    /\ \E p \in Procs : /\ bgw_pc[p] = "reg_release"
                        /\ BackgroundWorkerLock.excl = p
                        /\ bgw_frame[p].slotno = 1
                        /\ store_buffer[p] # <<>>
    /\ ~background_worker_data.slot[1].in_use
    /\ background_worker_data.slot[1].generation = 2
    /\ background_worker_data.slot[1].terminate

\* ---------------------------------------------------------------- C26
\* p returns from WaitForBackgroundWorkerStartup or ...Shutdown
WaitReturns(p) ==
    bgw_pc[p] \in {"wait_check", "wait_latch"} /\ bgw_pc'[p] = "idle"

\* C26: WaitForBackgroundWorkerStartup returns BGWH_STARTED, BGWH_STOPPED or
\* BGWH_POSTMASTER_DIED and never BGWH_NOT_YET_STARTED;
\* WaitForBackgroundWorkerShutdown returns BGWH_STOPPED or
\* BGWH_POSTMASTER_DIED; either returns BGWH_POSTMASTER_DIED only from a
\* WaitLatch that woke up on the death of the postmaster, which is dead then.
C26_WaitOutcomes ==
    [][\A p \in Procs :
          WaitReturns(p) =>
             /\ bgw_frame'[p].status \in
                   IF bgw_frame[p].wait = "startup"
                   THEN {"BGWH_STARTED", "BGWH_STOPPED", "BGWH_POSTMASTER_DIED"}
                   ELSE {"BGWH_STOPPED", "BGWH_POSTMASTER_DIED"}
             /\ bgw_frame[p].wait \in {"startup", "shutdown"}
             /\ bgw_frame'[p].status = "BGWH_POSTMASTER_DIED" =>
                   bgw_pc[p] = "wait_latch" /\ ~pm.alive
             /\ bgw_frame'[p].status = "BGWH_STARTED" => bgw_frame'[p].pid \in ThreadIds
      ]_vars

\* WaitForBackgroundWorkerShutdown has returned BGWH_POSTMASTER_DIED for a
\* worker that is still running
C26_Witness ==
    /\ bgw_pc[1] = "idle"
    /\ bgw_frame[1].wait = "shutdown"
    /\ bgw_frame[1].status = "BGWH_POSTMASTER_DIED"
    /\ ~pm.alive
    /\ background_worker_data.slot[bgw_frame[1].handle.slot].pid \in ThreadIds

\* ------------------------------------------------------------------ C27
InLoad(p) == pc[p] \in {"load_stat", "load_read", "load_ret", "unlock"}
InRecover(p) == pc[p] \in {"rec_open", "rec_write", "rec_fsync", "rec_close"}

PassRank ==
    IF pm.pc = "idle" THEN 0
    ELSE 2 * (max_background_workers - pm.slotno) + (IF pm.pc = "scan" THEN 2 ELSE 1)

PassStep == pm.pc # "idle" /\ (pm'.pc # pm.pc \/ pm'.slotno # pm.slotno)

\* C28: a pass of BackgroundWorkerStateChange takes no lock and waits for
\* none: each of its steps leaves BackgroundWorkerLock and RelationMappingLock
\* as they are, its next step can be taken whoever holds BackgroundWorkerLock,
\* it goes through the slots in order and visits none twice, and it ends,
\* even if a backend never releases the lock and the slots change meanwhile.
C28_PassTakesNoLock ==
    /\ [][PassStep => /\ UNCHANGED <<BackgroundWorkerLock, lock>>
                      /\ PassRank' < PassRank
                      /\ pm'.pc # "idle" => pm'.slotno >= pm.slotno]_vars
    /\ [](pm.pc # "idle" => ENABLED (StateChangeInUse \/ StateChangeExamine))
    /\ ((pm.pc # "idle") ~> (pm.pc = "idle"))

\* the pass is at a slot a backend has just marked for termination, that
\* backend still holding the lock exclusively
C28_Witness ==
    \E p \in Procs :
        /\ pm.pc = "examine"
        /\ BackgroundWorkerLock.excl = p
        /\ bgw_pc[p] # "idle"
        /\ Read(Postmaster, pm.slotno, "terminate")

\* ------------------------------------------------------------------ C29
Unique(map) ==
    \A i, j \in 1..map.num_mappings :
        Slot(map, i).mapoid = Slot(map, j).mapoid => i = j

\* the pending, active and committed tables of session p, and the copies of
\* the committed tables on disk
TablesOf(p) ==
    UNION {{pending_updates[p][s], active_updates[p][s], real_map[p][s]} : s \in BOOLEAN}
OnDiskTables ==
    {file[s][n].data.img : s \in BOOLEAN, n \in {"map", "bak"}}

\* what a step that is RelationMapRemoveMapping(relationId) of session p does
Removes(p, relationId) ==
    LET map == active_updates[p][FALSE] IN
    /\ IF HasOid(map, relationId)
       THEN /\ Entries(active_updates'[p][FALSE]) =
                   {e \in Entries(map) : e.mapoid # relationId}
            /\ active_updates'[p][FALSE].num_mappings = map.num_mappings - 1
            /\ pc'[p] = "idle"
       ELSE /\ active_updates'[p][FALSE] = map
            /\ hist'[p].errcode = "ERRCODE_NO_DATA_FOUND"
            /\ pc'[p] = "error"
    /\ active_updates'[p][TRUE] = active_updates[p][TRUE]
    /\ UNCHANGED <<pending_updates, real_map, file>>

\* C29: every table (pending, active and committed, of both scopes, in the
\* session and on disk) holds at most one entry per relation, whatever
\* RelationMapUpdateMap, AtCCI_RelationMap, the merge of perform_relmap_update
\* and RelationMapRemoveMapping did; and RelationMapRemoveMapping takes out
\* of the active local table the one entry of the relation and nothing else,
\* or raises ERRCODE_NO_DATA_FOUND and changes no table when there is none.
C29_OneEntryPerRelation ==
    /\ [](\A p \in Procs : \A map \in TablesOf(p) \cup OnDiskTables : Unique(map))
    /\ [][\A p \in Procs, relationId \in Oids :
            RelationMapRemoveMapping(p, relationId) => Removes(p, relationId)]_vars

\* a transaction that staged one update has no update left and has just been
\* refused a removal: the entry it staged was removed from the active local
\* table, and a second removal found nothing
C29_Witness ==
    \E p \in Procs :
        /\ pc[p] = "error" /\ InXact(p)
        /\ hist[p].errcode = "ERRCODE_NO_DATA_FOUND"
        /\ xact[p].nstage = 1
        /\ \A s \in BOOLEAN : /\ active_updates[p][s].num_mappings = 0
                               /\ pending_updates[p][s].num_mappings = 0

\* ------------------------------------------------------------------ C30
PrimaryOf(p) == file[frame[p].shared]["map"].data
BackupOf(p) == file[frame[p].shared]["bak"].data
ValidImage(f) == f.st = "full" /\ EQ_CRC32(f.img) /\ ValidHeader(f.img)

\* C30: a load_relmap_file that found no backup copy goes past its checks
\* only if the primary copy is valid, with the map read from the primary, and
\* when it returns the backup copy exists and holds what the primary holds;
\* it ends in FATAL only if the primary is not valid, the backup it turns to
\* not being there.
C30_MissingBackup ==
    \A p \in Procs :
        frame[p].fix_backup =>
            /\ InRecover(p) \/ pc[p] \in {"load_ret", "unlock"} =>
                   /\ ValidImage(PrimaryOf(p))
                   /\ ~frame[p].retry
                   /\ real_map[p][frame[p].shared] = PrimaryOf(p).img
            /\ pc[p] \in {"load_ret", "unlock"} =>
                   /\ BackupOf(p).st = "full"
                   /\ BackupOf(p) = PrimaryOf(p)
            /\ pc[p] = "dead" =>
                   /\ ~ValidImage(PrimaryOf(p))
                   /\ frame[p].retry => BackupOf(p).st = "nofile"

\* one session returns from the load of the shared map having written the
\* backup it had found missing; the other has died in the load of its local
\* map, whose primary fails the checksum and whose backup is missing
C30_Witness ==
    \E p, q \in Procs :
        /\ pc[p] = "load_ret" /\ frame[p].shared /\ frame[p].fix_backup
        /\ BackupOf(p) = PrimaryOf(p)
        /\ pc[q] = "dead" /\ ~frame[q].shared /\ frame[q].fix_backup /\ frame[q].retry
        /\ ~EQ_CRC32(PrimaryOf(q).img)

\* ------------------------------------------------------------------ C31
\* the copy recover_relmap_file(shared, backupfile) of session p rewrites, and
\* the one it was called to leave alone
RewrittenBy(p) == CopyName(frame[p].backupfile)
HealthyFor(p) == CopyName(~frame[p].backupfile)

\* what a copy holds once the session's map was written to it and flushed
RecoveredCopy(p) ==
    LET f == FullFile(real_map[p][frame[p].shared]) IN [data |-> f, durable |-> f]

\* C31: recover_relmap_file(shared, backupfile) leaves the copy it rewrites
\* holding the session's map of that scope and nothing else, whatever the
\* copy held before, so that running it again with the same map leaves the
\* same bytes; no step of it changes the other copy or the session's maps.
C31_RecoverIdempotent ==
    [][\A p \in Procs :
         InRecover(p) /\ pc'[p] # pc[p] =>
            /\ file'[frame[p].shared][HealthyFor(p)] = file[frame[p].shared][HealthyFor(p)]
            /\ file'[~frame[p].shared] = file[~frame[p].shared]
            /\ real_map' = real_map
            /\ pc'[p] \in {"rec_close", "load_ret"} =>
                   file'[frame[p].shared][RewrittenBy(p)] = RecoveredCopy(p)]_vars

\* a session returns from a load of the shared map that rewrote the missing
\* backup copy, after the other session, which had found it missing as well,
\* had rewritten it from the same map and finished its load
C31_Witness ==
    \E p, q \in Procs :
        /\ p # q
        /\ pc[p] = "load_ret" /\ frame[p].shared /\ frame[p].fix_backup
        /\ phase[q] >= 1
        /\ real_map[q][TRUE] = real_map[p][TRUE]
        /\ file[TRUE]["bak"] = RecoveredCopy(p)

\* ------------------------------------------------------------------ C32
\* a step of recover_relmap_file in session p that is a failure of one of its
\* system calls
RecoverFails(p) == InRecover(p) /\ pc'[p] \notin {pc[p], "rec_write", "rec_fsync", "rec_close", "load_ret"}

\* C32, as stated: whichever call of recover_relmap_file fails (open, write,
\* fsync, close), the failure is fatal, to the session or to the server, and
\* never an error the session recovers from.
C32_RecoverFailureIsFatal ==
    [][\A p \in Procs : RecoverFails(p) => pc'[p] \in {"dead", "panic"}]_vars

\* C32, amended: a failed write or fsync of recover_relmap_file is a PANIC;
\* a failed open or close is an ERROR, which ends a session that is starting
\* and is an ordinary error, unwound by the abort, in a session that is up.
\* The ERROR leaves the files as they are: after a failed open the copy is
\* what it was, after a failed close it is completely rewritten and flushed.
C32_RecoverFailureLevels ==
    [][\A p \in Procs :
         RecoverFails(p) =>
            IF pc[p] \in {"rec_write", "rec_fsync"}
            THEN pc'[p] = "panic"
            ELSE /\ pc'[p] = IF Ready(p) THEN "error" ELSE "dead"
                 /\ file' = file
                 /\ pc[p] = "rec_close" =>
                        file[frame[p].shared][RewrittenBy(p)] = RecoveredCopy(p)]_vars

\* a session that is up got an ERROR from recover_relmap_file while it
\* reloaded its maps after a reset of its invalidation queue
C32_Witness ==
    \E p \in Procs :
        /\ pc[p] = "error" /\ Ready(p)
        /\ frame[p].caller = "invalidate_all"
        /\ frame[p].retry \/ frame[p].fix_backup

\* ------------------------------------------------------------------ C33
Replaying(p) == frame[p].caller = "redo"

\* both copies of scope s hold img, in the file and on stable storage
BothCopies(s, img) ==
    \A n \in {"map", "bak"} :
        file[s][n] = [data |-> FullFile(img), durable |-> FullFile(img)]

\* no write of a map file is under way: no session is at work, or the
\* startup process has replayed the last record
Settled ==
    \/ \A q \in Procs : pc[q] = "idle" /\ ~Replaying(q)
    \/ \E p \in Procs : Replaying(p) /\ pc[p] = "redo_next" /\ frame[p].lsn = Len(wal)

\* C33: replaying an XLOG_RELMAP_UPDATE record leaves both copies of the
\* record's scope holding exactly the record's image, whatever they held,
\* touches no copy of the other scope, writes no log record and takes no
\* RelationMappingLock; and once every record has been replayed in order the
\* copies of each scope are what the commits that wrote the records had left:
\* the image of the scope's last record.
C33_ReplayRewritesBothCopies ==
    /\ [][\A p \in Procs :
            Replaying(p) /\ Replaying(p)' =>
               /\ wal' = wal /\ lock' = lock
               /\ pc[p] # "redo_next" =>
                      file'[~frame[p].shared] = file[~frame[p].shared]
               /\ pc[p] = "w_finish" /\ pc'[p] = "redo_next" =>
                      /\ frame[p].new_map = wal[frame[p].lsn].data
                      /\ wal[frame[p].lsn].shared = frame[p].shared
                      /\ BothCopies(frame[p].shared, wal[frame[p].lsn].data)']_vars
    /\ [](Settled =>
            \A s \in BOOLEAN :
                (\E k \in 1..Len(wal) : wal[k].shared = s) => BothCopies(s, LastWritten(s)))

\* the startup process has replayed two records, one of each scope, and the
\* copies of both scopes hold the images of the records
C33_Witness ==
    \E p \in Procs :
        /\ Replaying(p) /\ pc[p] = "redo_next"
        /\ Len(wal) = 2 /\ frame[p].lsn = 2
        /\ wal[1].shared # wal[2].shared
        /\ \A k \in 1..2 : BothCopies(wal[k].shared, wal[k].data)
        /\ wal[1].data # BaseMap

\* ------------------------------------------------------------------ C34
\* C34: a slot marked terminate that the postmaster has not recorded is
\* freed by the pass that finds it and is never tracked or started: the
\* step leaves the worker list alone and issues, in this order, the
\* increment of parallel_terminate_count (parallel class only), a barrier,
\* pid = 0, in_use = false and then the signal to the registrant; the
\* postmaster tracks no slot it sees free, and GetBackgroundWorkerPid on a
\* handle whose slot is free in memory answers BGWH_STOPPED.
FreesUntracked ==
    /\ pm.pc = "examine" /\ pm'.pc # "examine"
    /\ ~background_worker_list[pm.slotno].known
    /\ Read(Postmaster, pm.slotno, "terminate")

CountStores(buf) ==
    {k \in 1..Len(buf) : buf[k].field = "parallel_terminate_count"}

FreedInOrder ==
    LET i == pm.slotno
        worker == Read(Postmaster, i, "worker")
        buf == store_buffer'[Postmaster]
        n == Len(buf)
        count == Incr32(Read(Postmaster, 0, "parallel_terminate_count"))
    IN /\ background_worker_list' = background_worker_list
       /\ n >= 3
       /\ buf[n].field = "notify" /\ buf[n].val = worker.bgw_notify_pid
       /\ buf[n - 1] = Store(i, "in_use", FALSE)
       /\ buf[n - 2] = Store(i, "pid", 0)
       /\ IF worker.parallel
          THEN \E j, k \in 1..(n - 3) :
                  /\ j < k
                  /\ buf[j] = Store(0, "parallel_terminate_count", count)
                  /\ buf[k] = Barrier
                  /\ j \notin CountStores(store_buffer[Postmaster])
          ELSE CountStores(buf) = CountStores(store_buffer[Postmaster])

FreeInMemory(h) == h.slot # 0 /\ ~Mem(h.slot, "in_use")

C34_UntrackedTerminateFreed ==
    /\ [][FreesUntracked => FreedInOrder]_vars
    /\ [](\A i \in Slots :
             background_worker_list[i].known => Read(Postmaster, i, "in_use"))
    /\ [][\A p \in Procs :
             /\ (bgw_pc[p] # "get_pid" /\ bgw_pc'[p] = "get_pid"
                   /\ FreeInMemory(bgw_frame[p].handle))
                => bgw_frame'[p].stale
             /\ (bgw_pc[p] = "get_pid" /\ bgw_pc'[p] # "get_pid" /\ bgw_frame[p].stale)
                => bgw_frame'[p].status = "BGWH_STOPPED"]_vars

\* the pass has freed a parallel worker it never recorded: the count and
\* in_use = false have reached memory, pid = 0 has not, the signal is behind
\* it, and backend 1 has been told BGWH_STOPPED
C34_Witness ==
    /\ registered[1].terminated /\ registered[1].worker.parallel
    /\ ~background_worker_list[1].known
    /\ store_buffer[Postmaster] = Notified(<<Store(1, "pid", 0)>>, 1)
    /\ Mem(1, "pid") = InvalidPid /\ ~Mem(1, "in_use")
    /\ Mem(0, "parallel_terminate_count") = Mem(0, "parallel_register_count")
    /\ bgw_frame[1].handle.generation = Mem(1, "generation")
    /\ bgw_pc[1] = "idle" /\ bgw_frame[1].status = "BGWH_STOPPED"

\* ------------------------------------------------------------------ C35
\* C35: the step of a pass over a slot the postmaster tracks does something
\* only if the terminate flag is up and rw_terminate is not yet: then it sets
\* rw_terminate and either sends one SIGTERM to the worker that has a pid or,
\* the worker having none, stores pid = 0 in the slot and signals the
\* registrant; in every other case it changes nothing but the position of
\* the pass.  A worker is sent at most one SIGTERM while it is tracked, and
\* only once rw_terminate is up.
ExaminesTracked ==
    /\ pm.pc = "examine" /\ pm'.pc # "examine"
    /\ background_worker_list[pm.slotno].known

ReactsToTerminate ==
    LET i == pm.slotno
        rw == background_worker_list[i]
    IN IF Read(Postmaster, i, "terminate") /\ ~rw.rw_terminate
       THEN /\ background_worker_list'[i].rw_terminate
            /\ background_worker_list'[i].rw_pid = rw.rw_pid
            /\ IF rw.rw_pid # 0
               THEN /\ background_worker_list'[i].sigterm = rw.sigterm + 1
                    /\ store_buffer' = store_buffer
               ELSE /\ background_worker_list'[i].sigterm = rw.sigterm
                    /\ store_buffer'[Postmaster] =
                          Notified(Append(store_buffer[Postmaster], Store(i, "pid", 0)),
                                   registered[i].worker.bgw_notify_pid)
       ELSE /\ background_worker_list' = background_worker_list
            /\ store_buffer' = store_buffer

C35_TerminateOncePerRegistration ==
    /\ [][ExaminesTracked =>
             /\ ReactsToTerminate
             /\ background_worker_data' = background_worker_data
             /\ bgw_frame' = bgw_frame]_vars
    /\ [](\A i \in Slots :
             /\ background_worker_list[i].sigterm <= 1
             /\ background_worker_list[i].sigterm = 1 =>
                    /\ background_worker_list[i].rw_terminate
                    /\ background_worker_list[i].rw_pid # 0)

\* a later pass is at the slot of a running worker that has had its SIGTERM
C35_Witness ==
    /\ pm.pc = "examine" /\ pm.slotno = 1
    /\ background_worker_list[1].known
    /\ background_worker_list[1].rw_terminate
    /\ background_worker_list[1].sigterm = 1
    /\ Read(Postmaster, 1, "terminate")

\* ------------------------------------------------------------------ C36
\* C36: a backend that has set the terminate flag through a handle of the
\* slot's current registration and is in the loop of
\* WaitForBackgroundWorkerShutdown gets out of it: with BGWH_STOPPED, with
\* BGWH_POSTMASTER_DIED, or by the error of an interrupt.
Stopping(p) ==
    LET h == bgw_frame[p].handle
    IN /\ bgw_pc[p] \in {"wait_loop", "get_pid", "wait_check", "wait_latch", "wait_reset"}
       /\ bgw_frame[p].wait = "shutdown"
       /\ h.slot # 0
       /\ registered[h.slot].terminated
       /\ registered[h.slot].generation = h.generation

StopReturned(p) ==
    /\ bgw_pc[p] = "idle"
    /\ \/ bgw_frame[p].wait = "shutdown"
          /\ bgw_frame[p].status \in {"BGWH_STOPPED", "BGWH_POSTMASTER_DIED"}
       \/ bgw_frame[p].wait = "none" /\ bgw_frame[p].status = "none"

C36_StopReturns == Stopping(1) ~> StopReturned(1)

\* the waiter was in WaitLatch with its latch down, while the postmaster,
\* alive, had not yet seen the terminate flag of the running worker
C36_Witness ==
    /\ Stopping(1) /\ bgw_pc[1] = "wait_latch" /\ ~bgw_frame[1].latch
    /\ pm.alive
    /\ background_worker_list[1].known /\ background_worker_list[1].rw_pid # 0
    /\ ~background_worker_list[1].rw_terminate

\* ------------------------------------------------------------------ C37
NumStores(buf, i, field) ==
    Cardinality({k \in 1..Len(buf) : buf[k].slotno = i /\ buf[k].field = field})

\* the value of a counter after the stores to it that are outstanding
LogicalCount(field) ==
    LET H == {a \in Agents : NumStores(store_buffer[a], 0, field) > 0}
    IN IF H = {} THEN Mem(0, field) ELSE Read(CHOOSE a \in H : TRUE, 0, field)

ParallelRegistrationsIssued ==
    {p \in Procs : \E i \in Slots :
        /\ NumStores(store_buffer'[p], i, "worker") > NumStores(store_buffer[p], i, "worker")
        /\ bgw_frame[p].worker.parallel}

ParallelReleasesIssued ==
    {i \in Slots :
        /\ NumStores(store_buffer'[Postmaster], i, "in_use")
              > NumStores(store_buffer[Postmaster], i, "in_use")
        /\ Read(Postmaster, i, "worker").parallel}

InUseParallel == {i \in Slots : Mem(i, "in_use") /\ Mem(i, "worker").parallel}

\* no release is in progress: every store the postmaster issued has landed
NoReleaseInProgress == store_buffer[Postmaster] = <<>>

\* no backend is between the increment of parallel_register_count and the
\* landing of in_use = true
NoRegistrationInProgress ==
    \A p \in Procs : store_buffer[p] = <<>> /\ bgw_pc[p] # "reg_publish"

\* C37 as stated: whenever no release is in progress, the registered count
\* less the terminated count is the number of slots in use that hold a
\* parallel worker.
C37_OccupancyWhenNoRelease ==
    NoReleaseInProgress =>
        InFlight(Mem(0, "parallel_register_count"),
                 Mem(0, "parallel_terminate_count")) = Cardinality(InUseParallel)

\* C37, amended: each step adds to parallel_register_count the number of
\* parallel workers whose registration it issues, and to
\* parallel_terminate_count the number of parallel slots whose release it
\* issues, modulo the counters' width; the terminated count never runs
\* ahead of the registered count; and when neither a release nor a
\* registration is in progress the difference of the two counters is the
\* number of slots in use that hold a parallel worker.
C37_ParallelAccounting ==
    /\ [][/\ LogicalCount("parallel_register_count")' =
                (LogicalCount("parallel_register_count")
                   + Cardinality(ParallelRegistrationsIssued)) % Uint32
           /\ LogicalCount("parallel_terminate_count")' =
                (LogicalCount("parallel_terminate_count")
                   + Cardinality(ParallelReleasesIssued)) % Uint32]_vars
    /\ [](/\ InFlight(LogicalCount("parallel_register_count"),
                      LogicalCount("parallel_terminate_count")) >= 0
          /\ InFlight(Mem(0, "parallel_register_count"),
                      Mem(0, "parallel_terminate_count")) >= 0)
    /\ []((NoReleaseInProgress /\ NoRegistrationInProgress) =>
             InFlight(Mem(0, "parallel_register_count"),
                      Mem(0, "parallel_terminate_count")) = Cardinality(InUseParallel))

\* at rest, after a parallel worker was registered and released and the
\* counters wrapped around, a second parallel worker holds the slot
C37_Witness ==
    /\ NoReleaseInProgress /\ NoRegistrationInProgress
    /\ Mem(0, "parallel_register_count") = 1
    /\ Mem(0, "parallel_terminate_count") = 0
    /\ InUseParallel = {1}

\* ------------------------------------------------------------------ C38
\* whatever of each copy reaches stable storage, one copy of each scope is a
\* whole image with a matching checksum
OneCopySurvives ==
    \A s \in BOOLEAN :
        \/ \A f \in AfterCrash(file[s]["map"]) : ValidImage(f)
        \/ \A f \in AfterCrash(file[s]["bak"]) : ValidImage(f)

\* the images a scope's copies were ever meant to hold
CompleteImages(s) ==
    {BaseMap} \cup {WithOverhead(wal[k].data) : k \in {j \in 1..Len(wal) : wal[j].shared = s}}

\* a map that a load has returned is one whole image, never a mixture
LoadsWholeImage ==
    \A p \in Procs, s \in BOOLEAN :
        (pc[p] = "idle" /\ real_map[p][s] # ZeroMap) => real_map[p][s] \in CompleteImages(s)

\* load_relmap_file gave up on its second attempt, the one on the backup copy
BothCopiesCorrupt(p) == pc[p] = "dead" /\ frame[p].retry

\* C38: the server going down at any step of write_relmap_file or of
\* recover_relmap_file leaves, in each scope, one copy that is a whole image
\* with a matching checksum; no load_relmap_file after the restart ends in
\* the FATAL of its second attempt, and the map a load returns is one of the
\* whole images the copies were meant to hold, the old or the new, never a
\* mixture of two.
C38_CrashConsistent ==
    /\ OneCopySurvives
    /\ \A p \in Procs : ~BothCopiesCorrupt(p)
    /\ LoadsWholeImage

\* the server went down while the primary copy was being overwritten: after
\* the restart the primary is a mixture that fails its checksum, the backup
\* is the new image, and the load has fallen back to the backup and is about
\* to rewrite the primary
C38_Witness ==
    \E s \in BOOLEAN :
        /\ pc[1] = "rec_open" /\ frame[1].shared = s /\ frame[1].retry
        /\ file[s]["map"].durable.st = "full" /\ ~ValidImage(file[s]["map"].durable)
        /\ ValidImage(file[s]["bak"].durable)
        /\ file[s]["bak"].durable.img # BaseMap

\* the server went down between the open(O_TRUNC) of recover_relmap_file and
\* its fsync: the primary is shorter than an image, and the load after the
\* restart stops at its first read although the backup is whole
ShortPrimaryFatal ==
    \E s \in BOOLEAN :
        /\ pc[1] = "dead" /\ frame[1].shared = s /\ ~frame[1].retry
        /\ file[s]["map"].durable.st = "short"
        /\ ValidImage(file[s]["bak"].durable)

\* ------------------------------------------------------------------ C39
\* the stores of a registration in slot i that are on their way to memory
PendingStores(i) ==
    {st \in UNION {{store_buffer[p][k] : k \in 1..Len(store_buffer[p])} : p \in Procs} :
        st.slotno = i /\ st.field \in {"generation", "in_use"}}

\* the generation of the last registration made in slot i
LatestGeneration(i) ==
    LET G == {st \in PendingStores(i) : st.field = "generation"}
    IN IF G = {} THEN Mem(i, "generation") ELSE (CHOOSE st \in G : TRUE).val

\* the postmaster's in_use = false for the registration of handle h has
\* reached memory, or the slot has been registered again since
Released(h) ==
    /\ h.slot # 0
    /\ \/ LatestGeneration(h.slot) > h.generation
       \/ /\ LatestGeneration(h.slot) = h.generation
          /\ PendingStores(h.slot) = {}
          /\ ~Mem(h.slot, "in_use")

\* C39: once the slot of a handle's registration has been released, it stays
\* released for that handle whatever happens to the slot afterwards, a new
\* registration and the start of its worker included, and every
\* GetBackgroundWorkerPid that is called on the handle from then on finds the
\* generation changed or in_use false and answers BGWH_STOPPED.
C39_StoppedIsStable ==
    [][\A p \in Procs :
          LET h == bgw_frame[p].handle
          IN /\ (Released(h) /\ bgw_frame'[p].handle = h) => Released(h)'
             /\ (Released(h) /\ bgw_pc[p] # "get_pid" /\ bgw_pc'[p] = "get_pid")
                   => bgw_frame'[p].stale
             /\ (bgw_pc[p] = "get_pid" /\ bgw_pc'[p] # "get_pid" /\ bgw_frame[p].stale)
                   => /\ bgw_frame'[p].status = "BGWH_STOPPED"
                      /\ bgw_frame'[p].pid = 0]_vars

\* backend 1 holds the handle of the first registration of slot 1; the slot
\* was released and registered again, its new worker runs, and a call on the
\* old handle has answered BGWH_STOPPED
C39_Witness ==
    /\ bgw_frame[1].handle = [slot |-> 1, generation |-> 1]
    /\ Mem(1, "generation") = 2 /\ Mem(1, "in_use") /\ Mem(1, "pid") \in ThreadIds
    /\ bgw_frame[2].handle = [slot |-> 1, generation |-> 2]
    /\ bgw_pc[1] = "idle" /\ bgw_frame[1].status = "BGWH_STOPPED"

\* ------------------------------------------------------------------ C40
\* write_relmap_file of session q has logged its record and has not yet
\* flushed the primary copy, the second of the two
Persisting(q) ==
    /\ frame[q].write_wal
    /\ \/ pc[q] \in {"w_xlog_flush", "w_write", "w_fsync"}
       \/ pc[q] = "w_fsync_done" /\ frame[q].i = 0
       \/ pc[q] = "w_open" /\ frame[q].i = 1

\* CheckPointRelationMap has returned in process p
Checkpointed(p) == pc[p] = "idle" /\ frame[p].caller = "checkpoint"

\* the records of scope s among the first n of the log
LoggedBefore(s, n) == {k \in 1..n : wal[k].shared = s}

\* C40: when CheckPointRelationMap returns, no write_relmap_file is between
\* its log record and the flush of its second copy, every record that was in
\* the log when the call started has been flushed, and both copies of a
\* scope hold, flushed, the image of a record at least as late as the last
\* of those; afterwards a write_relmap_file that is still at work has logged
\* its record after the call started.
C40_CheckpointWaitsForPersist ==
    /\ [][\A p \in Procs :
            (pc[p] = "ckpt_unlock" /\ pc'[p] = "idle") =>
               /\ \A q \in Procs : ~Persisting(q)
               /\ \A k \in 1..frame[p].lsn : wal[k].flushed
               /\ \A s \in BOOLEAN, n \in {"map", "bak"} :
                     LoggedBefore(s, frame[p].lsn) # {} =>
                        /\ file[s][n].durable = file[s][n].data
                        /\ \E k \in LoggedBefore(s, Len(wal)) :
                              /\ \A j \in LoggedBefore(s, frame[p].lsn) : j <= k
                              /\ file[s][n].durable = FullFile(wal[k].data)]_vars
    /\ [](\A p, q \in Procs :
             (Checkpointed(p) /\ Persisting(q)) =>
                /\ Len(wal) > frame[p].lsn
                /\ wal[Len(wal)].data = frame[q].new_map)

\* session 1 logged a record and wrote both copies, the checkpoint that
\* started after the record was logged has returned, and session 1 has only
\* just released the lock
C40_Witness ==
    /\ Checkpointed(2) /\ frame[2].lsn = 1 /\ Len(wal) = 1
    /\ lock.excl = 0 /\ pc[1] = "eox_next" /\ frame[1].write_wal
    /\ file[wal[1].shared]["map"].durable = FullFile(wal[1].data)

====
